---- MODULE Spec2Model ----
(***************************************************************************)
(* A model of the sqlx connection core: the MySQL connection with its      *)
(* nested transaction / savepoint manager and drop-path rollback           *)
(* (sqlx-mysql/src/transaction.rs, sqlx-core/src/transaction.rs,           *)
(* sqlx-mysql/src/connection/mod.rs) and the SQLite statement preparation  *)
(* in front of the statement cache                                         *)
(* (sqlx-core/src/sqlite/connection/executor.rs).                          *)
(***************************************************************************)
EXTENDS Integers, Sequences, FiniteSets, TLC

\* ------------------------------------------------------------------ bounds

\* begin is not attempted beyond this nesting depth
MaxDepth == 4

\* how many manager operations the run remembers (hist)
HistLen == 3

\* the SQL helpers are applied to the depths up to this one
MaxSqlDepth == 120

\* the statement cache capacities and query texts tried
MaxCapacity == 2

NumQueries == 3

\* the statement_cache_capacity of the MySQL connection
StmtCapacity == 2

\* the statement ids the server hands out (its max_prepared_stmt_count)
MaxStmtId == 3

\* the nonces a server may send
NumNonces == 2

\* the packets the server sends in one authentication loop
MaxAuthSteps == 2

\* the packet sequence id is one byte
SeqIdBits == 8

VARIABLES
    conn,       \* MySqlConnectionInner and its MySqlStream, with the server's unread replies
    handles,    \* the live Transaction handles on the connection, innermost last
    faults,     \* whether write_packet may return Err in this run
    hist,       \* the last manager operations, oldest first
    last,       \* what the last operation was and the state it started in
    sq,         \* the SQLite connection: statement cache, one-shot slot, prepare log
    fmt,        \* a SQL helper applied to a depth, and the text it made
    est         \* a MySQL connection being established: options, plugin, packets

vars == <<conn, handles, faults, hist, last, sq, fmt, est>>

Pow2(n) == 2 ^ n

\* ------------------------------------------------------------ SQL texts

\* `{}` of a usize: its decimal digits, most significant first
\* (the single digit -1 stands for the digits of a wrapped value)
RECURSIVE Display(_)
Display(n) == IF n < 10 THEN <<n>> ELSE Display(n \div 10) \o <<n % 10>>

\* format!(prefix{}, n): the literal followed by the number's digits
Format(prefix, n) == [lit |-> prefix, num |-> Display(n)]

\* Cow::Borrowed(text): a literal without a number
Borrowed(text) == [lit |-> text, num |-> <<>>]

\* usize subtraction. Below zero a debug build panics and a release build wraps
\* to a value near usize::MAX; -1 stands for that outcome.
UsizeSub(a, b) == IF a >= b THEN a - b ELSE -1

begin_ansi_transaction_sql(depth) ==
    IF depth = 0 THEN Borrowed("BEGIN")
    ELSE Format("SAVEPOINT _sqlx_savepoint_", depth)

\* variant: commit releases the savepoint numbered with the depth itself
commit_ansi_transaction_sql_same(depth) ==
    IF depth = 1 THEN Borrowed("COMMIT")
    ELSE Format("RELEASE SAVEPOINT _sqlx_savepoint_", depth)

commit_ansi_transaction_sql(depth) ==
    IF depth = 1 THEN Borrowed("COMMIT")
    ELSE Format("RELEASE SAVEPOINT _sqlx_savepoint_", UsizeSub(depth, 1))

\* variant: the savepoint number is the depth itself, not depth - 1
rollback_ansi_transaction_sql_same(depth) ==
    IF depth = 1 THEN Borrowed("ROLLBACK")
    ELSE Format("ROLLBACK TO SAVEPOINT _sqlx_savepoint_", depth)

rollback_ansi_transaction_sql(depth) ==
    IF depth = 1 THEN Borrowed("ROLLBACK")
    ELSE Format("ROLLBACK TO SAVEPOINT _sqlx_savepoint_", UsizeSub(depth, 1))

\* ------------------------------------------------------------ the stream

\* a command packet as it is written: the command, its text, its sequence id
Packet(cmd, sql, seq) == [cmd |-> cmd, sql |-> sql, seq |-> seq]

NoSql == Borrowed("")

\* the server's reply to one packet: it answers with the next sequence id
ReplyTo(p) == [cmd |-> p.cmd, sql |-> p.sql, seq |-> (p.seq + 1) % Pow2(SeqIdBits)]

\* the commands the server does not answer
Unanswered == {"StmtClose", "Quit"}

RECURSIVE Replies(_)
Replies(ps) ==
    IF ps = <<>> THEN <<>>
    ELSE (IF Head(ps).cmd \in Unanswered THEN <<>> ELSE <<ReplyTo(Head(ps))>>)
         \o Replies(Tail(ps))

\* one step of an operation as the stream sees it: a packet written ("w") or a
\* reply read ("r", for the packet it answers; owed: read off the waiting queue)
Ev(k, p, owed) == [k |-> k, cmd |-> p.cmd, sql |-> p.sql, seq |-> p.seq, owed |-> owed]

\* MySqlStream::write_packet: frames the payload with the current sequence id
\* into the write buffer and advances the counter; Err leaves the stream as it was
write_packet(c, cmd, sql, wr) ==
    IF wr = "err" THEN c
    ELSE LET p == Packet(cmd, sql, c.sequence_id)
         IN [c EXCEPT !.write_buffer = Append(@, p),
                      !.trace = Append(@, Ev("w", p, FALSE)),
                      !.sequence_id = (@ + 1) % Pow2(SeqIdBits)]

\* the buffered bytes reach the server, which answers each packet in order
flush_stream(c) ==
    [c EXCEPT !.write_buffer = <<>>,
              !.replies = @ \o Replies(c.write_buffer)]

\* MySqlStream::send_packet: a new exchange starts at sequence id 0
send_packet(c, cmd, sql) ==
    flush_stream(write_packet([c EXCEPT !.sequence_id = 0], cmd, sql, "ok"))

\* send_packet(..).await? where the write may fail: Err is remembered in result
try_send_packet(c, cmd, sql, wr) ==
    IF wr = "err" THEN [c EXCEPT !.sequence_id = 0, !.result = FALSE]
    ELSE send_packet(c, cmd, sql)

\* reading one reply off the transport moves the counter past its sequence id
read_reply(c, owed) ==
    [c EXCEPT !.replies = Tail(@),
              !.trace = Append(@, Ev("r", Head(c.replies), owed)),
              !.sequence_id = (Head(c.replies).seq + 1) % Pow2(SeqIdBits)]

\* MySqlStream::recv_packet / recv_ok: takes the oldest unread reply
recv_packet(c) ==
    IF c.replies = <<>> THEN c ELSE read_reply(c, FALSE)

\* every owed reply is read and its marker popped, oldest first
RECURSIVE drain(_)
drain(c) ==
    IF c.waiting = <<>> \/ c.replies = <<>> THEN c
    ELSE drain([read_reply(c, TRUE) EXCEPT !.waiting = Tail(@)])

\* MySqlStream::wait_until_ready: flush what is buffered, then read every
\* reply that is still owed
wait_until_ready(c) ==
    drain(IF c.write_buffer /= <<>> THEN flush_stream(c) ELSE c)

\* Executor::execute of one statement: drain, send the query, read its reply.
\* ok is the server's verdict on the statement.
execute(c, sql, ok) ==
    [recv_packet(send_packet(wait_until_ready(c), "Query", sql)) EXCEPT !.result = ok]

\* ------------------------------------------- MySqlTransactionManager

\* the log of calls made during one operation: a manager function entered at a
\* connection depth, or a SQL helper called with a depth
Call(c, fn, depth) == [c EXCEPT !.calls = Append(@, [fn |-> fn, depth |-> depth])]

Sql(c, fn, depth) == Call(c, fn, depth)

\* variant: begin stores depth + 1 before the statement's result is known
begin_counts_first(c, ok) ==
    LET depth == c.transaction_depth
        c0 == Sql(Call(c, "begin", depth), "begin_ansi_transaction_sql", depth)
        c1 == execute(c0, begin_ansi_transaction_sql(depth), ok)
    IN [c1 EXCEPT !.transaction_depth = depth + 1]

\* MySqlTransactionManager::begin
begin(c, ok) ==
    LET depth == c.transaction_depth
        c0 == Sql(Call(c, "begin", depth), "begin_ansi_transaction_sql", depth)
        c1 == execute(c0, begin_ansi_transaction_sql(depth), ok)
    IN IF ok THEN [c1 EXCEPT !.transaction_depth = depth + 1] ELSE c1

\* variant: commit without its `if depth > 0`
commit_unguarded(c, ok) ==
    LET depth == c.transaction_depth
        c0 == Sql(Call(c, "commit", depth), "commit_ansi_transaction_sql", depth)
        c1 == execute(c0, commit_ansi_transaction_sql(depth), ok)
    IN IF ok THEN [c1 EXCEPT !.transaction_depth = UsizeSub(depth, 1)] ELSE c1

\* variant: commit never stores depth - 1
commit_keeps_depth(c, ok) ==
    LET depth == c.transaction_depth
        c0 == Call(c, "commit", depth)
    IN IF depth > 0
       THEN execute(Sql(c0, "commit_ansi_transaction_sql", depth),
                    commit_ansi_transaction_sql(depth), ok)
       ELSE [c0 EXCEPT !.result = TRUE]

\* MySqlTransactionManager::commit
commit(c, ok) ==
    LET depth == c.transaction_depth
        c0 == Call(c, "commit", depth)
    IN IF depth > 0
       THEN LET c1 == execute(Sql(c0, "commit_ansi_transaction_sql", depth),
                              commit_ansi_transaction_sql(depth), ok)
            IN IF ok THEN [c1 EXCEPT !.transaction_depth = depth - 1] ELSE c1
       ELSE [c0 EXCEPT !.result = TRUE]

\* variant: rollback sends the commit text
rollback_sends_release(c, ok) ==
    LET depth == c.transaction_depth
        c0 == Call(c, "rollback", depth)
    IN IF depth > 0
       THEN LET c1 == execute(Sql(c0, "commit_ansi_transaction_sql", depth),
                              commit_ansi_transaction_sql(depth), ok)
            IN IF ok THEN [c1 EXCEPT !.transaction_depth = depth - 1] ELSE c1
       ELSE [c0 EXCEPT !.result = TRUE]

\* variant: rollback never stores depth - 1
rollback_keeps_depth(c, ok) ==
    LET depth == c.transaction_depth
        c0 == Call(c, "rollback", depth)
    IN IF depth > 0
       THEN execute(Sql(c0, "rollback_ansi_transaction_sql", depth),
                    rollback_ansi_transaction_sql(depth), ok)
       ELSE [c0 EXCEPT !.result = TRUE]

rollback(c, ok) ==
    LET depth == c.transaction_depth
        c0 == Call(c, "rollback", depth)
    IN IF depth > 0
       THEN LET c1 == execute(Sql(c0, "rollback_ansi_transaction_sql", depth),
                              rollback_ansi_transaction_sql(depth), ok)
            IN IF ok THEN [c1 EXCEPT !.transaction_depth = depth - 1] ELSE c1
       ELSE [c0 EXCEPT !.result = TRUE]

\* variant: start_rollback without its `if depth > 0`
start_rollback_unguarded(c, wr) ==
    LET depth == c.transaction_depth
        c1 == [Call(c, "start_rollback", depth)
                 EXCEPT !.waiting = Append(@, "Result"), !.sequence_id = 0]
        c2 == write_packet(Sql(c1, "rollback_ansi_transaction_sql", depth), "Query",
                           rollback_ansi_transaction_sql(depth), wr)
    IN IF wr = "err" THEN [c2 EXCEPT !.panicked = TRUE]
       ELSE [c2 EXCEPT !.transaction_depth = UsizeSub(depth, 1)]

\* variant: start_rollback stores depth - 1 first and takes the text from it
start_rollback_counts_first(c, wr) ==
    LET depth == c.transaction_depth
        c0 == Call(c, "start_rollback", depth)
    IN IF depth > 0
       THEN LET c1 == [c0 EXCEPT !.waiting = Append(@, "Result"), !.sequence_id = 0,
                                 !.transaction_depth = depth - 1]
                c2 == write_packet(Sql(c1, "rollback_ansi_transaction_sql", depth - 1),
                                   "Query", rollback_ansi_transaction_sql(depth - 1), wr)
            IN IF wr = "err" THEN [c2 EXCEPT !.panicked = TRUE] ELSE c2
       ELSE c0

\* variant: start_rollback leaves the sequence counter where it was
start_rollback_keeps_sequence(c, wr) ==
    LET depth == c.transaction_depth
        c0 == Call(c, "start_rollback", depth)
    IN IF depth > 0
       THEN LET c1 == [c0 EXCEPT !.waiting = Append(@, "Result")]
                c2 == write_packet(Sql(c1, "rollback_ansi_transaction_sql", depth),
                                   "Query", rollback_ansi_transaction_sql(depth), wr)
            IN IF wr = "err" THEN [c2 EXCEPT !.panicked = TRUE]
               ELSE [c2 EXCEPT !.transaction_depth = depth - 1]
       ELSE c0

\* the drop-path rollback: nothing is awaited. wr is what write_packet returns;
\* expect() panics on Err, before the depth is touched.
start_rollback(c, wr) ==
    LET depth == c.transaction_depth
        c0 == Call(c, "start_rollback", depth)
    IN IF depth > 0
       THEN LET c1 == [c0 EXCEPT !.waiting = Append(@, "Result"), !.sequence_id = 0]
                c2 == write_packet(Sql(c1, "rollback_ansi_transaction_sql", depth),
                                   "Query", rollback_ansi_transaction_sql(depth), wr)
            IN IF wr = "err" THEN [c2 EXCEPT !.panicked = TRUE]
               ELSE [c2 EXCEPT !.transaction_depth = depth - 1]
       ELSE c0

\* ------------------------------------------------------- Transaction<DB>

Handle(depth, open) == [depth |-> depth, open |-> open]

\* variant: drop without its `if self.open`
drop_transaction_always(c, h, wr) == start_rollback(c, wr)

\* impl Drop for Transaction
drop_transaction(c, h, wr) ==
    IF h.open THEN start_rollback(c, wr) ELSE c

\* variant: commit never clears self.open
transaction_commit_stays_open(c, h, ok, wr) ==
    drop_transaction(commit(c, ok), h, wr)

\* Transaction::commit(mut self): on Err the `?` returns with open still true;
\* either way self is dropped as the call returns
transaction_commit(c, h, ok, wr) ==
    LET c1 == commit(c, ok)
    IN IF c1.result
       THEN drop_transaction(c1, [h EXCEPT !.open = FALSE], wr)
       ELSE drop_transaction(c1, h, wr)

\* variant: rollback clears self.open before the manager is called
transaction_rollback_closes_first(c, h, ok, wr) ==
    drop_transaction(rollback(c, ok), [h EXCEPT !.open = FALSE], wr)

\* Transaction::rollback(mut self)
transaction_rollback(c, h, ok, wr) ==
    LET c1 == rollback(c, ok)
    IN IF c1.result
       THEN drop_transaction(c1, [h EXCEPT !.open = FALSE], wr)
       ELSE drop_transaction(c1, h, wr)

\* --------------------------------------------------- MySqlConnection

\* variant: ping without wait_until_ready
ping_without_wait(c) == recv_packet(send_packet(c, "Ping", NoSql))

\* Connection::ping: drain, send Ping, read its OK
ping(c) == recv_packet(send_packet(wait_until_ready(c), "Ping", NoSql))

\* Connection::flush
flush(c) == wait_until_ready(c)

\* Connection::should_flush
should_flush(c) == c.write_buffer /= <<>>

\* MySqlStream::shutdown: the transport is shut down; nothing is written
shutdown(c) ==
    [c EXCEPT !.trace = Append(@, Ev("sd", Packet("shutdown", NoSql, 0), FALSE))]

\* the connection value is consumed: `mut self` is dropped as the call returns
Consumed(c) == [c EXCEPT !.closed = TRUE]

\* variant: close shuts the transport down first and sends Quit afterwards
close_shuts_down_first(c, wr) ==
    Consumed(try_send_packet(shutdown(c), "Quit", NoSql, wr))

\* Connection::close(mut self): Quit is sent, then the transport is shut down;
\* a failing send returns its Err before shutdown is called
close(c, wr) ==
    LET c1 == try_send_packet(c, "Quit", NoSql, wr)
    IN Consumed(IF c1.result THEN shutdown(c1) ELSE c1)

\* Connection::close_hard(mut self)
close_hard(c) == Consumed(shutdown(c))

\* ------------------------------------------------------ StatementCache

\* a SqliteStatement: the text it was prepared from and whether persistently
Statement(query, persistent) == [query |-> query, persistent |-> persistent]

\* StatementCache: the entries in recency order, least recently used first
contains_key(cache, query) == \E i \in 1..Len(cache) : cache[i].query = query

Without(cache, query) == SelectSeq(cache, LAMBDA e : e.query /= query)

\* StatementCache::insert: a full cache gives up its least recently used entry
cache_insert(cache, capacity, st) ==
    IF contains_key(cache, st.query) THEN Append(Without(cache, st.query), st)
    ELSE IF Len(cache) >= capacity THEN Append(Tail(cache), st)
    ELSE Append(cache, st)

\* the entry insert pushes out, if any
cache_evicts(cache, capacity, st) ==
    IF ~contains_key(cache, st.query) /\ Len(cache) >= capacity /\ cache /= <<>>
    THEN <<Head(cache)>> ELSE <<>>

\* StatementCache::get_mut: the entry becomes the most recently used
cache_get_mut(cache, query) ==
    Append(Without(cache, query),
           cache[CHOOSE i \in 1..Len(cache) : cache[i].query = query])

\* --------------------------------------------- MySQL: the statement cache

\* the text of a query
QueryText(query) == Format("SELECT ", query)

\* the payload of StmtClose { statement }
StmtClose(statement) == Format("", statement)

\* an entry of cache_statement: the text and the server's statement id
Cached(query, statement) == [query |-> query, statement |-> statement]

\* the entry leaves the client-side cache
Removed(c, e) ==
    [c EXCEPT !.trace = Append(@, Ev("rm", Packet("remove_lru", StmtClose(e.statement), 0),
                                     FALSE))]

\* the server has a free statement id
HasStmtId(c) == \E i \in 1..MaxStmtId : i \notin c.stmts

\* the id the server gives the next prepared statement
NextStmtId(c) == CHOOSE i \in 1..MaxStmtId :
                    i \notin c.stmts /\ \A j \in 1..(i - 1) : j \in c.stmts

\* the statement of a persistent query: taken from the cache, or prepared on the
\* server and inserted. A full cache first gives up its least recently used
\* entry: StmtClose is sent for it, then the entry is dropped.
get_or_prepare(c, query, ok) ==
    IF contains_key(c.cache_statement, query)
    THEN [c EXCEPT !.cache_statement = cache_get_mut(@, query), !.result = TRUE]
    ELSE LET c1 == recv_packet(send_packet(wait_until_ready(c), "Prepare",
                                           QueryText(query)))
         IN IF ~ok \/ ~HasStmtId(c1) THEN [c1 EXCEPT !.result = FALSE]
            ELSE LET id == NextStmtId(c1)
                     c2 == [c1 EXCEPT !.stmts = @ \cup {id}]
                     lru == Head(c2.cache_statement)
                     c3 == IF Len(c2.cache_statement) < StmtCapacity THEN c2
                           ELSE [Removed(send_packet(c2, "StmtClose",
                                                     StmtClose(lru.statement)), lru)
                                   EXCEPT !.cache_statement = Tail(@),
                                          !.stmts = @ \ {lru.statement}]
                 IN [c3 EXCEPT !.cache_statement = Append(@, Cached(query, id)),
                               !.result = TRUE]

\* fn cached_statements_size(&self) -> usize
cached_statements_size(c) == Len(c.cache_statement)

\* StatementCache::remove_lru: the least recently used entry is taken out
remove_lru(c) ==
    [Removed(c, Head(c.cache_statement)) EXCEPT !.cache_statement = Tail(@)]

\* variant: every entry is removed, StmtClose is sent for the first one only
RECURSIVE clear_cached_statements_closes_one(_, _)
clear_cached_statements_closes_one(c, failing) ==
    IF c.cache_statement = <<>> THEN c
    ELSE LET e == Head(c.cache_statement)
             c1 == try_send_packet(remove_lru(c), "StmtClose", StmtClose(e.statement),
                                   IF failing = 1 THEN "err" ELSE "ok")
         IN IF ~c1.result THEN c1
            ELSE [c1 EXCEPT !.stmts = @ \ {e.statement}, !.cache_statement = <<>>]

\* async fn clear_cached_statements(&mut self): while remove_lru gives an entry,
\* StmtClose is sent for it; the first failing send ends the call with its Err.
\* failing is the number of the send that fails (0: none does).
RECURSIVE clear_cached_statements(_, _)
clear_cached_statements(c, failing) ==
    IF c.cache_statement = <<>> THEN c
    ELSE LET e == Head(c.cache_statement)
             c1 == try_send_packet(remove_lru(c), "StmtClose", StmtClose(e.statement),
                                   IF failing = 1 THEN "err" ELSE "ok")
         IN IF ~c1.result THEN c1
            ELSE clear_cached_statements([c1 EXCEPT !.stmts = @ \ {e.statement}],
                                         failing - 1)

\* ------------------------------------------------------ SQLite: prepare

\* a cache operation made by the running call
Touch(s, what) == [s EXCEPT !.ops = Append(@, what)]

\* SqliteStatement::prepare is issued; ok is whether SQLite accepts the text
Issue(s, query, persistent) ==
    [s EXCEPT !.prepared = Append(@, Statement(query, persistent))]

\* the one-shot branch of prepare
prepare_one_shot(s, query, ok) ==
    LET s1 == Issue(s, query, FALSE)
    IN IF ok THEN [s1 EXCEPT !.statement = <<Statement(query, FALSE)>>,
                             !.returned = <<Statement(query, FALSE)>>,
                             !.result = TRUE]
       ELSE [s1 EXCEPT !.result = FALSE]

\* variant: a text SQLite refused is inserted all the same
prepare_cached_inserts_failed(s, query, ok) ==
    LET exists == contains_key(s.cache, query)
        s1 == Touch(s, "contains_key")
        st == Statement(query, TRUE)
        s2 == IF exists THEN s1
              ELSE [Touch(Issue(s1, query, TRUE), "insert")
                      EXCEPT !.cache = cache_insert(s1.cache, s1.capacity, st),
                             !.evicted = @ \o cache_evicts(s1.cache, s1.capacity, st),
                             !.finalized = @ \o cache_evicts(s1.cache, s1.capacity, st)]
    IN IF ~exists /\ ~ok THEN [s2 EXCEPT !.result = FALSE]
       ELSE LET s3 == [Touch(s2, "get_mut") EXCEPT !.cache = cache_get_mut(s2.cache, query)]
            IN [s3 EXCEPT !.resets = IF exists THEN Append(@, query) ELSE @,
                          !.returned = <<st>>,
                          !.result = TRUE]

\* variant: a hit prepares the text again and stores the new statement
prepare_cached_reprepares(s, query, ok) ==
    LET exists == contains_key(s.cache, query)
        s1 == Touch(s, "contains_key")
    IN IF ~ok THEN [Issue(s1, query, TRUE) EXCEPT !.result = FALSE]
       ELSE LET st == Statement(query, TRUE)
                s2 == [Touch(Issue(s1, query, TRUE), "insert")
                         EXCEPT !.cache = cache_insert(s1.cache, s1.capacity, st),
                                !.evicted = @ \o cache_evicts(s1.cache, s1.capacity, st),
                                !.finalized = @ \o cache_evicts(s1.cache, s1.capacity, st)]
                s3 == [Touch(s2, "get_mut") EXCEPT !.cache = cache_get_mut(s2.cache, query)]
            IN [s3 EXCEPT !.resets = IF exists THEN Append(@, query) ELSE @,
                          !.returned = <<st>>,
                          !.result = TRUE]

\* variant: a hit is looked up without refreshing its recency
prepare_cached_peeks(s, query, ok) ==
    LET exists == contains_key(s.cache, query)
        s1 == Touch(s, "contains_key")
    IN IF ~exists /\ ~ok THEN [Issue(s1, query, TRUE) EXCEPT !.result = FALSE]
       ELSE LET st == Statement(query, TRUE)
                s2 == IF exists THEN s1
                      ELSE [Touch(Issue(s1, query, TRUE), "insert")
                              EXCEPT !.cache = cache_insert(s1.cache, s1.capacity, st),
                                     !.evicted = @ \o cache_evicts(s1.cache, s1.capacity, st),
                                     !.finalized = @ \o cache_evicts(s1.cache, s1.capacity, st)]
            IN [s2 EXCEPT !.resets = IF exists THEN Append(@, query) ELSE @,
                          !.returned = <<st>>,
                          !.result = TRUE]

\* the cached branch of prepare. The statement insert hands back (the entry it
\* pushed out) is not bound to a name, so it is dropped, and finalized, there.
prepare_cached(s, query, ok) ==
    LET exists == contains_key(s.cache, query)
        s1 == Touch(s, "contains_key")
    IN IF ~exists /\ ~ok THEN [Issue(s1, query, TRUE) EXCEPT !.result = FALSE]
       ELSE LET st == Statement(query, TRUE)
                s2 == IF exists THEN s1
                      ELSE [Touch(Issue(s1, query, TRUE), "insert")
                              EXCEPT !.cache = cache_insert(s1.cache, s1.capacity, st),
                                     !.evicted = @ \o cache_evicts(s1.cache, s1.capacity, st),
                                     !.finalized = @ \o cache_evicts(s1.cache, s1.capacity, st)]
                s3 == [Touch(s2, "get_mut") EXCEPT !.cache = cache_get_mut(s2.cache, query)]
            IN [s3 EXCEPT !.resets = IF exists THEN Append(@, query) ELSE @,
                          !.returned = <<st>>,
                          !.result = TRUE]

\* variant: prepare ignores `persistent`
prepare_always_cached(s, query, persistent, ok) ==
    IF s.capacity = 0 THEN prepare_one_shot(s, query, ok)
    ELSE prepare_cached(s, query, ok)

\* fn prepare(conn, statements, statement, query, persistent)
prepare(s, query, persistent, ok) ==
    IF ~persistent \/ s.capacity = 0 THEN prepare_one_shot(s, query, ok)
    ELSE prepare_cached(s, query, ok)

\* what SqliteStatement::execute may return: the statement runs, or SQLite
\* answers with something the statement cannot go on from
Runs == {"ok", "unexpected"}

\* stmt.execute()? of the statement prepare returned; the log keeps what it
\* answered (result stays what prepare returned)
execute_statement(s, run) ==
    [s EXCEPT !.executed = Append(@, [statement |-> s.returned[1], run |-> run])]

\* fetch_many: the statement is prepared (or taken from the cache), its
\* arguments bound, and it is executed; each `?` returns the Err as it is
fetch_many(s, query, persistent, ok, run) ==
    LET s1 == prepare(s, query, persistent, ok)
    IN IF ~s1.result THEN s1 ELSE execute_statement(s1, run)

\* the running totals stop counting at this number
MaxCount == MaxCapacity + 2

Sat(n) == IF n > MaxCount THEN MaxCount ELSE n

Count(seq, x) == Len(SelectSeq(seq, LAMBDA e : e = x))

\* a SqliteConnection whose cache was built with this capacity. Besides the
\* logs of the running call it keeps, over its life: how many statements were
\* inserted, pushed out and finalized, how many persistent prepares each cached
\* text has had since it entered the cache, and the cached texts in the order
\* of their last use.
SqNew(capacity) ==
    [capacity |-> capacity, cache |-> <<>>, statement |-> <<>>,
     call |-> [query |-> 0, persistent |-> FALSE, ok |-> TRUE], cache0 |-> <<>>,
     prepared |-> <<>>, resets |-> <<>>, ops |-> <<>>, evicted |-> <<>>,
     finalized |-> <<>>, returned |-> <<>>, executed |-> <<>>, result |-> TRUE,
     inserts |-> 0, evictions |-> 0, finalizations |-> 0,
     live |-> [q \in 1..NumQueries |-> 0], recency |-> <<>>, recency0 |-> <<>>,
     failed0 |-> 0]

\* the text whose persistent prepare failed on a miss in the call s ended
\* with (0: there is none)
FailedMiss(s) ==
    IF /\ s.call.query /= 0 /\ s.call.persistent /\ s.capacity > 0
       /\ ~contains_key(s.cache0, s.call.query) /\ ~s.result
    THEN s.call.query ELSE 0

\* the logs of one call start empty and the call remembers the cache it found
\* and the text the call before it failed to prepare
SqStarted(s, query, persistent, ok) ==
    [s EXCEPT !.call = [query |-> query, persistent |-> persistent, ok |-> ok],
              !.failed0 = FailedMiss(s),
              !.cache0 = s.cache, !.recency0 = s.recency,
              !.prepared = <<>>, !.resets = <<>>, !.ops = <<>>, !.evicted = <<>>,
              !.finalized = <<>>, !.returned = <<>>, !.executed = <<>>,
              !.result = TRUE]

\* the running totals after a call, from the call's logs
SqFinished(s) ==
    LET used == IF s.returned /= <<>> /\ s.returned[1].persistent
                THEN <<s.returned[1].query>> ELSE <<>>
        order == SelectSeq(s.recency, LAMBDA q : <<q>> /= used) \o used
    IN [s EXCEPT !.inserts = Sat(@ + Count(s.ops, "insert")),
                 !.evictions = Sat(@ + Len(s.evicted)),
                 !.finalizations = Sat(@ + Len(s.finalized)),
                 !.live = [q \in 1..NumQueries |->
                             IF ~contains_key(s.cache, q) THEN 0
                             ELSE Sat(@[q] + Count(s.prepared, Statement(q, TRUE)))],
                 !.recency = SelectSeq(order, LAMBDA q : contains_key(s.cache, q))]

\* ----------------------------------------------------------- the run

\* what write_packet may return in this run
WriteResults == IF faults THEN {"ok", "err"} ELSE {"ok"}

\* the logs of one operation start empty
Fresh(c) == [c EXCEPT !.trace = <<>>, !.calls = <<>>, !.result = TRUE]

NoHandle == Handle(0, FALSE)

\* the replies the connection is still to read when an operation starts
Owed(c) == c.replies \o Replies(c.write_buffer)

Started(op, h, ok, wr) ==
    [op |-> op, h |-> h, ok |-> ok, wr |-> wr,
     d0 |-> conn.transaction_depth, seq0 |-> conn.sequence_id,
     w0 |-> Len(conn.waiting), owed0 |-> Owed(conn), buf0 |-> conn.write_buffer,
     nh0 |-> Len(handles), cache0 |-> conn.cache_statement]

Remember(kind, c1) ==
    LET e == [op |-> kind, ok |-> c1.result /\ ~c1.panicked,
              d0 |-> conn.transaction_depth, d1 |-> c1.transaction_depth]
        h2 == Append(hist, e)
    IN IF Len(h2) > HistLen THEN Tail(h2) ELSE h2

\* an established connection: the handshake ended with the server's OK
\* (sequence id 2), nothing is buffered and no transaction is open
ConnInit ==
    [transaction_depth |-> 0, waiting |-> <<>>, sequence_id |-> 3,
     write_buffer |-> <<>>, replies |-> <<>>,
     cache_statement |-> <<>>, stmts |-> {},
     trace |-> <<>>, calls |-> <<>>, result |-> TRUE, panicked |-> FALSE,
     closed |-> FALSE]

SqIdle == SqNew(0)

FmtIdle == [fn |-> "none", depth |-> 0, text |-> NoSql]

\* the connection of this run is established already
EstIdle == [phase |-> "ready"]

InitWith(f) ==
    /\ conn = ConnInit
    /\ handles = <<>>
    /\ faults = f
    /\ hist = <<>>
    /\ last = [op |-> "init", h |-> NoHandle, ok |-> TRUE, wr |-> "ok",
               d0 |-> 0, seq0 |-> ConnInit.sequence_id, w0 |-> 0, owed0 |-> <<>>,
               buf0 |-> <<>>, nh0 |-> 0, cache0 |-> <<>>]
    /\ sq = SqIdle
    /\ fmt = FmtIdle
    /\ est = EstIdle

Init == InitWith(FALSE)

Innermost == handles[Len(handles)]

ButInnermost == SubSeq(handles, 1, Len(handles) - 1)

\* Transaction::begin on the connection, or on the innermost live handle
TxBegin ==
    /\ ~conn.panicked
    /\ ~conn.closed
    /\ conn.transaction_depth < MaxDepth
    /\ \E ok \in BOOLEAN :
        LET depth == conn.transaction_depth
            c1 == begin(Fresh(conn), ok)
        IN /\ conn' = c1
           /\ handles' = IF c1.result THEN Append(handles, Handle(depth + 1, TRUE))
                         ELSE handles
           /\ last' = Started("begin", NoHandle, ok, "ok")
           /\ hist' = Remember("begin", c1)
    /\ UNCHANGED <<faults, sq, fmt, est>>

\* Transaction::commit on the innermost live handle
TxCommit ==
    /\ ~conn.panicked
    /\ ~conn.closed
    /\ handles /= <<>>
    /\ \E ok \in BOOLEAN, wr \in WriteResults :
        LET c1 == transaction_commit(Fresh(conn), Innermost, ok, wr)
        IN /\ conn' = c1
           /\ last' = Started("commit", Innermost, ok, wr)
           /\ hist' = Remember("commit", c1)
    /\ handles' = ButInnermost
    /\ UNCHANGED <<faults, sq, fmt, est>>

\* Transaction::rollback on the innermost live handle
TxRollback ==
    /\ ~conn.panicked
    /\ ~conn.closed
    /\ handles /= <<>>
    /\ \E ok \in BOOLEAN, wr \in WriteResults :
        LET c1 == transaction_rollback(Fresh(conn), Innermost, ok, wr)
        IN /\ conn' = c1
           /\ last' = Started("rollback", Innermost, ok, wr)
           /\ hist' = Remember("rollback", c1)
    /\ handles' = ButInnermost
    /\ UNCHANGED <<faults, sq, fmt, est>>

\* the innermost live handle goes out of scope
TxDrop ==
    /\ ~conn.panicked
    /\ ~conn.closed
    /\ handles /= <<>>
    /\ \E wr \in WriteResults :
        LET c1 == drop_transaction(Fresh(conn), Innermost, wr)
        IN /\ conn' = c1
           /\ last' = Started("drop", Innermost, TRUE, wr)
           /\ hist' = Remember("start_rollback", c1)
    /\ handles' = ButInnermost
    /\ UNCHANGED <<faults, sq, fmt, est>>

\* the manager called on a connection no handle borrows
MgrBegin ==
    /\ ~conn.panicked
    /\ ~conn.closed
    /\ handles = <<>>
    /\ conn.transaction_depth < MaxDepth
    /\ \E ok \in BOOLEAN :
        LET c1 == begin(Fresh(conn), ok)
        IN /\ conn' = c1
           /\ last' = Started("mgr_begin", NoHandle, ok, "ok")
           /\ hist' = Remember("begin", c1)
    /\ UNCHANGED <<handles, faults, sq, fmt, est>>

MgrCommit ==
    /\ ~conn.panicked
    /\ ~conn.closed
    /\ handles = <<>>
    /\ \E ok \in BOOLEAN :
        LET c1 == commit(Fresh(conn), ok)
        IN /\ conn' = c1
           /\ last' = Started("mgr_commit", NoHandle, ok, "ok")
           /\ hist' = Remember("commit", c1)
    /\ UNCHANGED <<handles, faults, sq, fmt, est>>

MgrRollback ==
    /\ ~conn.panicked
    /\ ~conn.closed
    /\ handles = <<>>
    /\ \E ok \in BOOLEAN :
        LET c1 == rollback(Fresh(conn), ok)
        IN /\ conn' = c1
           /\ last' = Started("mgr_rollback", NoHandle, ok, "ok")
           /\ hist' = Remember("rollback", c1)
    /\ UNCHANGED <<handles, faults, sq, fmt, est>>

MgrStartRollback ==
    /\ ~conn.panicked
    /\ ~conn.closed
    /\ handles = <<>>
    /\ \E wr \in WriteResults :
        LET c1 == start_rollback(Fresh(conn), wr)
        IN /\ conn' = c1
           /\ last' = Started("start_rollback", NoHandle, TRUE, wr)
           /\ hist' = Remember("start_rollback", c1)
    /\ UNCHANGED <<handles, faults, sq, fmt, est>>

Ping ==
    /\ ~conn.panicked
    /\ ~conn.closed
    /\ conn' = ping(Fresh(conn))
    /\ last' = Started("ping", NoHandle, TRUE, "ok")
    /\ hist' = <<>>
    /\ UNCHANGED <<handles, faults, sq, fmt, est>>

Flush ==
    /\ ~conn.panicked
    /\ ~conn.closed
    /\ conn' = flush(Fresh(conn))
    /\ last' = Started("flush", NoHandle, TRUE, "ok")
    /\ hist' = <<>>
    /\ UNCHANGED <<handles, faults, sq, fmt, est>>

Next ==
    \/ TxBegin \/ TxCommit \/ TxRollback \/ TxDrop
    \/ MgrBegin \/ MgrCommit \/ MgrRollback \/ MgrStartRollback
    \/ Ping \/ Flush

Spec == Init /\ [][Next]_vars

\* the same connection in a run where write_packet may fail
FaultInit == InitWith(TRUE)

SpecFault == FaultInit /\ [][Next]_vars

\* ------------------------------------- the MySQL connection and its cache

\* a persistent query is run: its statement comes from the cache
GetOrPrepare ==
    /\ ~conn.closed
    /\ \E query \in 1..NumQueries, ok \in BOOLEAN :
           /\ conn' = get_or_prepare(Fresh(conn), query, ok)
           /\ last' = [Started("get_or_prepare", NoHandle, ok, "ok") EXCEPT !.d0 = query]
    /\ hist' = <<>>
    /\ UNCHANGED <<handles, faults, sq, fmt, est>>

\* the sends that may fail in this run: none, or one of the sends the call makes
FailingSends(n) == IF faults THEN 0..n ELSE {0}

ClearCachedStatements ==
    /\ ~conn.closed
    /\ \E failing \in FailingSends(Len(conn.cache_statement)) :
           /\ conn' = clear_cached_statements(Fresh(conn), failing)
           /\ last' = Started("clear_cached_statements", NoHandle, TRUE,
                              IF failing = 0 THEN "ok" ELSE "err")
    /\ hist' = <<>>
    /\ UNCHANGED <<handles, faults, sq, fmt, est>>

CacheNext == GetOrPrepare \/ ClearCachedStatements \/ Ping \/ Flush

\* the connection runs persistent queries and is pinged, flushed and cleared;
\* a send of clear_cached_statements may fail
SpecCache == FaultInit /\ [][CacheNext]_vars

\* --------------------------------- the MySQL connection until it is closed

\* Connection::close; the caller owns the connection, so no handle borrows it
Close ==
    /\ ~conn.panicked
    /\ ~conn.closed
    /\ handles = <<>>
    /\ \E wr \in WriteResults :
           /\ conn' = close(Fresh(conn), wr)
           /\ last' = Started("close", NoHandle, TRUE, wr)
    /\ hist' = <<>>
    /\ UNCHANGED <<handles, faults, sq, fmt, est>>

CloseHard ==
    /\ ~conn.panicked
    /\ ~conn.closed
    /\ handles = <<>>
    /\ conn' = close_hard(Fresh(conn))
    /\ last' = Started("close_hard", NoHandle, TRUE, "ok")
    /\ hist' = <<>>
    /\ UNCHANGED <<handles, faults, sq, fmt, est>>

CloseNext ==
    \/ TxBegin \/ TxDrop \/ GetOrPrepare \/ ClearCachedStatements \/ Ping
    \/ Close \/ CloseHard

\* transactions are begun and dropped, persistent queries run, the cache is
\* cleared, and the connection is closed one way or the other
SpecClose == Init /\ [][CloseNext]_vars

\* ------------------------------------------------ the SQL helpers alone

\* a depth is chosen and one helper applied to it. commit and rollback texts are
\* asked for at depth >= 1 only, as the manager does.
SqlInit ==
    /\ conn = ConnInit
    /\ handles = <<>>
    /\ faults = FALSE
    /\ hist = <<>>
    /\ last = [op |-> "init"]
    /\ sq = SqIdle
    /\ est = EstIdle
    /\ \E d \in 0..MaxSqlDepth : fmt = [fn |-> "none", depth |-> d, text |-> NoSql]

ApplyBegin ==
    /\ fmt.fn = "none"
    /\ fmt' = [fmt EXCEPT !.fn = "begin", !.text = begin_ansi_transaction_sql(fmt.depth)]
    /\ UNCHANGED <<conn, handles, faults, hist, last, sq, est>>

ApplyCommit ==
    /\ fmt.fn = "none"
    /\ fmt.depth >= 1
    /\ fmt' = [fmt EXCEPT !.fn = "commit", !.text = commit_ansi_transaction_sql(fmt.depth)]
    /\ UNCHANGED <<conn, handles, faults, hist, last, sq, est>>

ApplyRollback ==
    /\ fmt.fn = "none"
    /\ fmt.depth >= 1
    /\ fmt' = [fmt EXCEPT !.fn = "rollback",
                          !.text = rollback_ansi_transaction_sql(fmt.depth)]
    /\ UNCHANGED <<conn, handles, faults, hist, last, sq, est>>

SqlNext == ApplyBegin \/ ApplyCommit \/ ApplyRollback

SpecSql == SqlInit /\ [][SqlNext]_vars

\* ------------------------------------------------ the SQLite connection

Queries == 1..NumQueries

SqInit ==
    /\ conn = ConnInit
    /\ handles = <<>>
    /\ faults = FALSE
    /\ hist = <<>>
    /\ last = [op |-> "init"]
    /\ fmt = FmtIdle
    /\ est = EstIdle
    /\ \E capacity \in 0..MaxCapacity : sq = SqNew(capacity)

\* fetch_many prepares its query; it is persistent when arguments are bound
Prepare ==
    /\ \E query \in Queries, persistent \in BOOLEAN, ok \in BOOLEAN :
        sq' = SqFinished(prepare(SqStarted(sq, query, persistent, ok),
                                 query, persistent, ok))
    /\ UNCHANGED <<conn, handles, faults, hist, last, fmt, est>>

\* a query is run: prepared, bound and executed
FetchMany ==
    /\ \E query \in Queries, persistent \in BOOLEAN, ok \in BOOLEAN, run \in Runs :
        sq' = SqFinished(fetch_many(SqStarted(sq, query, persistent, ok),
                                    query, persistent, ok, run))
    /\ UNCHANGED <<conn, handles, faults, hist, last, fmt, est>>

SqNext == Prepare \/ FetchMany

SpecPrepare == SqInit /\ [][SqNext]_vars

\* ------------------------------- establishment: sqlx-mysql connect.rs

\* the mechanisms AuthPlugin::parse knows
Plugins == {"mysql_native_password", "sha256_password", "caching_sha2_password",
            "dialog"}

\* the mechanism names a server may send
PluginNames == Plugins \cup {"mysql_old_password"}

Nonces == 1..NumNonces

\* options.get_password(): None, Some("") or Some of a password
Passwords == {<<>>, <<"">>, <<"secret">>}

\* Option<&str>::unwrap_or_default
unwrap_or_default(password) == IF password = <<>> THEN "" ELSE password[1]

\* what a plugin answers with; the empty answer carries no credential
Body(kind, plugin, nonce) == [kind |-> kind, plugin |-> plugin, nonce |-> nonce]

NoBody == Body("none", "none", 0)

EmptyBody == Body("empty", "none", 0)

\* the error bytes of an ERR packet: the code as two bytes, low byte first
ErrBytes(lo, hi, state, message) ==
    [lo |-> lo, hi |-> hi, state |-> state, message |-> message]

NoErrBytes == ErrBytes(0, 0, "", "")

\* an error as it is returned: code, SQL state, message, and the plugin it is about
Error(code, state, message, plugin) ==
    [code |-> code, state |-> state, message |-> message, plugin |-> plugin]

NoError == Error(0, "", "", "none")

\* a packet of the server in the connection phase
ServerPacket(tag, plugin, nonce, command, err) ==
    [tag |-> tag, plugin |-> plugin, nonce |-> nonce, command |-> command, err |-> err]

\* the Command packets of the fixtures: 0x01 0x03 (fast auth), 0x01 0x04 (full
\* auth), 0x01 followed by a public key, 0x04 (the dialog prompt)
Commands == {"fast_auth_ok", "full_auth", "public_key", "prompt"}

ErrPackets == {ErrBytes(21, 4, "28000", "Access denied for user"),
               ErrBytes(20, 4, "42000", "Access denied to database")}

AuthPackets ==
    {ServerPacket("OK", "none", 0, "none", NoErrBytes)}
    \cup {ServerPacket("ERR", "none", 0, "none", b) : b \in ErrPackets}
    \cup {ServerPacket("Command", "none", 0, c, NoErrBytes) : c \in Commands}
    \cup {ServerPacket("Switch", name, n, "none", NoErrBytes) :
            name \in PluginNames, n \in Nonces}

\* one step of establishment: a packet read ("r") or written ("w"), a plugin
\* name parsed ("parse"), a plugin's invoke or handle run
Step(k, what, plugin, nonce, password, body, err, seq) ==
    [k |-> k, what |-> what, plugin |-> plugin, nonce |-> nonce,
     password |-> password, body |-> body, err |-> err, seq |-> seq]

Log(e, step) == [e EXCEPT !.log = Append(@, step)]

\* a packet of the server as it arrives, with the sequence id in its header
Sent(packet, seq) ==
    [f \in DOMAIN packet \cup {"seq"} |-> IF f = "seq" THEN seq ELSE packet[f]]

\* the sequence id of the last packet read
LastReadSeq(e) ==
    LET reads == {i \in 1..Len(e.log) : e.log[i].k = "r"}
    IN e.log[CHOOSE i \in reads : \A j \in reads : j <= i].seq

\* the sequence ids the server may put on its next packet: the one that
\* follows the last packet of the exchange, or, as in the fixtures, two past
\* its own last packet whether the client answered that one or not
ServerSeqs(e) == {e.sequence_id, (LastReadSeq(e) + 2) % Pow2(SeqIdBits)}

\* the first byte of a packet's payload: 0x00 in OK, 0xff in ERR, 0xfe in a
\* Switch, the protocol version 10 in the Handshake; the Command packets of
\* the fixtures start with 0x01, the dialog prompt with 0x04
FirstByte(packet) ==
    IF packet.tag = "OK" THEN 0
    ELSE IF packet.tag = "ERR" THEN 255
    ELSE IF packet.tag = "Switch" THEN 254
    ELSE IF packet.tag = "Handshake" THEN 10
    ELSE IF packet.command = "prompt" THEN 4
    ELSE 1

\* the step of a packet read also keeps the packet's first byte
Received(step, packet) ==
    [f \in DOMAIN step \cup {"byte"} |->
        IF f = "byte" THEN FirstByte(packet) ELSE step[f]]

\* variant: the counter counts the packet and does not take over its id
read_packet_counts(e, packet) ==
    [Log(e, Received(Step("r", packet.tag, packet.plugin, packet.nonce, "", NoBody,
                          packet.err, packet.seq), packet))
       EXCEPT !.sequence_id = (@ + 1) % Pow2(SeqIdBits)]

\* read_packet!: the packet is taken as it comes, whatever its sequence id, and
\* the counter moves past that id
read_packet(e, packet) ==
    [Log(e, Received(Step("r", packet.tag, packet.plugin, packet.nonce, "", NoBody,
                          packet.err, packet.seq), packet))
       EXCEPT !.sequence_id = (packet.seq + 1) % Pow2(SeqIdBits)]

\* self.stream.write_packet: framed with the current sequence id
stream_write_packet(e, what, body) ==
    [Log(e, Step("w", what, body.plugin, body.nonce, "", body, NoErrBytes,
                 e.sequence_id))
       EXCEPT !.sequence_id = (@ + 1) % Pow2(SeqIdBits)]

Fail(e, error) == [e EXCEPT !.phase = "failed", !.error = error]

\* AuthPlugin::parse: a name it does not know cannot be loaded
AuthPlugin_parse(e, name) ==
    LET known == name \in Plugins
        e1 == Log(e, Step("parse", IF known THEN "ok" ELSE "err", name, 0, "", NoBody,
                          NoErrBytes, 0))
    IN IF known THEN e1 ELSE Fail(e1, Error(2059, "HY000", "cannot be loaded", name))

\* AuthPlugin::invoke(nonce, password) -> Vec<u8>
invoke_response(plugin, nonce, password) ==
    IF plugin = "dialog" THEN Body("dialog", plugin, nonce)
    ELSE IF password = "" THEN EmptyBody
    ELSE IF plugin = "sha256_password" THEN Body("request_key", plugin, nonce)
    ELSE Body("scramble", plugin, nonce)

invoke(e, plugin, nonce, password) ==
    Log(e, Step("invoke", "", plugin, nonce, password,
                invoke_response(plugin, nonce, password), NoErrBytes, 0))

\* AuthPlugin::handle(command, data, nonce, password) -> Result<Option<Vec<u8>>>:
\* NoBody is Ok(None), NoError is Ok
handle_response(plugin, command, nonce, password) ==
    IF plugin = "caching_sha2_password" /\ command = "fast_auth_ok"
    THEN [data |-> NoBody, error |-> NoError]
    ELSE IF plugin = "caching_sha2_password" /\ command = "full_auth"
    THEN [data |-> Body("request_key", plugin, nonce), error |-> NoError]
    ELSE IF plugin \in {"caching_sha2_password", "sha256_password"}
            /\ command = "public_key"
    THEN [data |-> Body("encrypted", plugin, nonce), error |-> NoError]
    ELSE IF plugin = "dialog" /\ command = "prompt"
    THEN [data |-> NoBody,
          error |-> Error(2061, "HY000",
                          "interactive dialog authentication is currently not supported",
                          plugin)]
    ELSE [data |-> NoBody,
          error |-> Error(2061, "HY000", "unexpected command", plugin)]

handle(e, plugin, command, nonce, password) ==
    Log(e, Step("handle", command, plugin, nonce, password,
                handle_response(plugin, command, nonce, password).data, NoErrBytes, 0))

\* ResultPacket::into_result of an ERR packet: the code is the two bytes read
\* low byte first, state and message are the packet's
into_result(err) == Error(err.lo + 256 * err.hi, err.state, err.message, "none")

\* MySqlConnection::new: the capabilities the client asks for
ClientCapabilities ==
    {"PROTOCOL_41", "LONG_PASSWORD", "LONG_FLAG", "IGNORE_SPACE", "TRANSACTIONS",
     "SECURE_CONNECTION", "MULTI_STATEMENTS", "MULTI_RESULTS", "PS_MULTI_RESULTS",
     "PLUGIN_AUTH", "PLUGIN_AUTH_LENENC_DATA", "CAN_HANDLE_EXPIRED_PASSWORDS",
     "SESSION_TRACK", "DEPRECATE_EOF"}

\* what a server may declare: everything, or an older server's subset
ServerCapabilities ==
    {ClientCapabilities \cup {"CONNECT_WITH_DB", "SSL"},
     {"PROTOCOL_41", "LONG_PASSWORD", "LONG_FLAG", "TRANSACTIONS", "SECURE_CONNECTION",
      "PLUGIN_AUTH", "SSL"}}

\* the Handshake packet: the server's capabilities, its plugin and the nonce
Handshake(name, nonce, capabilities) ==
    [tag |-> "Handshake", plugin |-> name, nonce |-> nonce, command |-> "none",
     err |-> NoErrBytes, capabilities |-> capabilities]

\* a connection around a fresh stream, about to read the Handshake
EstNew(password) ==
    [phase |-> "start", password |-> password, capabilities |-> ClientCapabilities,
     server_capabilities |-> {}, advertised |-> {},
     auth_plugin |-> "none", auth_plugin_data |-> 0,
     sequence_id |-> 0, steps |-> 0, log |-> <<>>, error |-> NoError]

\* how many bytes a response has on the wire, as the fixtures have them: a
\* native scramble 20, a caching_sha2 scramble 32, the public key request 1, an
\* RSA-encrypted password 256, the response to an empty password 0 (no
\* fixture shows the bytes of a dialog response)
ResponseLen(body) ==
    IF body.kind = "scramble"
    THEN (IF body.plugin = "mysql_native_password" THEN 20 ELSE 32)
    ELSE IF body.kind = "request_key" THEN 1
    ELSE IF body.kind = "encrypted" THEN 256
    ELSE 0

\* variant: the HandshakeResponse goes out without the plugin's response
handle_handshake_without_response(e, handshake) ==
    LET password == unwrap_or_default(e.password)
        e1 == [e EXCEPT !.capabilities =
                          (@ \cup {"CONNECT_WITH_DB"}) \cap handshake.capabilities,
                        !.server_capabilities = handshake.capabilities]
        e2 == invoke(e1, e1.auth_plugin, e1.auth_plugin_data, password)
    IN [stream_write_packet(e2, "HandshakeResponse", EmptyBody)
          EXCEPT !.advertised = e1.capabilities]

\* fn handle_handshake(&mut self, options, handshake); the HandshakeResponse
\* carries self.capabilities
handle_handshake(e, handshake) ==
    LET password == unwrap_or_default(e.password)
        e1 == [e EXCEPT !.capabilities =
                          (@ \cup {"CONNECT_WITH_DB"}) \cap handshake.capabilities,
                        !.server_capabilities = handshake.capabilities]
        e2 == invoke(e1, e1.auth_plugin, e1.auth_plugin_data, password)
    IN [stream_write_packet(e2, "HandshakeResponse",
                            invoke_response(e1.auth_plugin, e1.auth_plugin_data,
                                            password))
          EXCEPT !.advertised = e1.capabilities]

\* variant: a server error at the end of authentication is not returned
handle_auth_response_ignores_err(e, response) ==
    IF response.tag \in {"OK", "ERR"} THEN [e EXCEPT !.phase = "ready"]
    ELSE IF response.tag = "Command"
    THEN LET password == unwrap_or_default(e.password)
             res == handle_response(e.auth_plugin, response.command,
                                    e.auth_plugin_data, password)
             e1 == handle(e, e.auth_plugin, response.command, e.auth_plugin_data,
                          password)
         IN IF res.error /= NoError THEN Fail(e1, res.error)
            ELSE IF res.data /= NoBody
            THEN stream_write_packet(e1, "AuthResponse", res.data)
            ELSE e1
    ELSE LET password == unwrap_or_default(e.password)
             e1 == [e EXCEPT !.auth_plugin = response.plugin,
                             !.auth_plugin_data = response.nonce]
             e2 == invoke(e1, e1.auth_plugin, e1.auth_plugin_data, password)
         IN stream_write_packet(e2, "AuthResponse",
                                invoke_response(e1.auth_plugin, e1.auth_plugin_data,
                                                password))

\* variant: a switch takes the new plugin and keeps the nonce of the handshake
handle_auth_response_keeps_nonce(e, response) ==
    IF response.tag = "OK" THEN [e EXCEPT !.phase = "ready"]
    ELSE IF response.tag = "ERR" THEN Fail(e, into_result(response.err))
    ELSE IF response.tag = "Command"
    THEN LET password == unwrap_or_default(e.password)
             res == handle_response(e.auth_plugin, response.command,
                                    e.auth_plugin_data, password)
             e1 == handle(e, e.auth_plugin, response.command, e.auth_plugin_data,
                          password)
         IN IF res.error /= NoError THEN Fail(e1, res.error)
            ELSE IF res.data /= NoBody
            THEN stream_write_packet(e1, "AuthResponse", res.data)
            ELSE e1
    ELSE LET password == unwrap_or_default(e.password)
             e1 == [e EXCEPT !.auth_plugin = response.plugin]
             e2 == invoke(e1, e1.auth_plugin, e1.auth_plugin_data, password)
         IN stream_write_packet(e2, "AuthResponse",
                                invoke_response(e1.auth_plugin, e1.auth_plugin_data,
                                                password))

\* variant: a packet is written for a Command even when handle returns None
handle_auth_response_always_writes(e, response) ==
    IF response.tag = "OK" THEN [e EXCEPT !.phase = "ready"]
    ELSE IF response.tag = "ERR" THEN Fail(e, into_result(response.err))
    ELSE IF response.tag = "Command"
    THEN LET password == unwrap_or_default(e.password)
             res == handle_response(e.auth_plugin, response.command,
                                    e.auth_plugin_data, password)
             e1 == handle(e, e.auth_plugin, response.command, e.auth_plugin_data,
                          password)
         IN IF res.error /= NoError THEN Fail(e1, res.error)
            ELSE stream_write_packet(e1, "AuthResponse", res.data)
    ELSE LET password == unwrap_or_default(e.password)
             e1 == [e EXCEPT !.auth_plugin = response.plugin,
                             !.auth_plugin_data = response.nonce]
             e2 == invoke(e1, e1.auth_plugin, e1.auth_plugin_data, password)
         IN stream_write_packet(e2, "AuthResponse",
                                invoke_response(e1.auth_plugin, e1.auth_plugin_data,
                                                password))

\* variant: a second Switch packet is refused
handle_auth_response_one_switch(e, response) ==
    IF response.tag = "OK" THEN [e EXCEPT !.phase = "ready"]
    ELSE IF response.tag = "ERR" THEN Fail(e, into_result(response.err))
    ELSE IF response.tag = "Command"
    THEN LET password == unwrap_or_default(e.password)
             res == handle_response(e.auth_plugin, response.command,
                                    e.auth_plugin_data, password)
             e1 == handle(e, e.auth_plugin, response.command, e.auth_plugin_data,
                          password)
         IN IF res.error /= NoError THEN Fail(e1, res.error)
            ELSE IF res.data /= NoBody
            THEN stream_write_packet(e1, "AuthResponse", res.data)
            ELSE e1
    ELSE IF Len(SelectSeq(e.log, LAMBDA st : st.k = "r" /\ st.what = "Switch")) > 1
    THEN Fail(e, Error(2027, "HY000", "malformed packet", response.plugin))
    ELSE LET password == unwrap_or_default(e.password)
             e1 == [e EXCEPT !.auth_plugin = response.plugin,
                             !.auth_plugin_data = response.nonce]
             e2 == invoke(e1, e1.auth_plugin, e1.auth_plugin_data, password)
         IN stream_write_packet(e2, "AuthResponse",
                                invoke_response(e1.auth_plugin, e1.auth_plugin_data,
                                                password))

\* variant: the bytes handle returns for a Command are not written
handle_auth_response_drops_answer(e, response) ==
    IF response.tag = "OK" THEN [e EXCEPT !.phase = "ready"]
    ELSE IF response.tag = "ERR" THEN Fail(e, into_result(response.err))
    ELSE IF response.tag = "Command"
    THEN LET password == unwrap_or_default(e.password)
             res == handle_response(e.auth_plugin, response.command,
                                    e.auth_plugin_data, password)
             e1 == handle(e, e.auth_plugin, response.command, e.auth_plugin_data,
                          password)
         IN IF res.error /= NoError THEN Fail(e1, res.error) ELSE e1
    ELSE LET password == unwrap_or_default(e.password)
             e1 == [e EXCEPT !.auth_plugin = response.plugin,
                             !.auth_plugin_data = response.nonce]
             e2 == invoke(e1, e1.auth_plugin, e1.auth_plugin_data, password)
         IN stream_write_packet(e2, "AuthResponse",
                                invoke_response(e1.auth_plugin, e1.auth_plugin_data,
                                                password))

\* variant: a Command the plugin has no answer to counts as the end
handle_auth_response_ends_early(e, response) ==
    IF response.tag = "OK" THEN [e EXCEPT !.phase = "ready"]
    ELSE IF response.tag = "ERR" THEN Fail(e, into_result(response.err))
    ELSE IF response.tag = "Command"
    THEN LET password == unwrap_or_default(e.password)
             res == handle_response(e.auth_plugin, response.command,
                                    e.auth_plugin_data, password)
             e1 == handle(e, e.auth_plugin, response.command, e.auth_plugin_data,
                          password)
         IN IF res.error /= NoError THEN Fail(e1, res.error)
            ELSE IF res.data /= NoBody
            THEN stream_write_packet(e1, "AuthResponse", res.data)
            ELSE [e1 EXCEPT !.phase = "ready"]
    ELSE LET password == unwrap_or_default(e.password)
             e1 == [e EXCEPT !.auth_plugin = response.plugin,
                             !.auth_plugin_data = response.nonce]
             e2 == invoke(e1, e1.auth_plugin, e1.auth_plugin_data, password)
         IN stream_write_packet(e2, "AuthResponse",
                                invoke_response(e1.auth_plugin, e1.auth_plugin_data,
                                                password))

\* fn handle_auth_response(&mut self, options, handshake, response) -> Result<bool>:
\* End with OK is Ok(true), the phase "ready"; Ok(false) leaves the phase "auth"
handle_auth_response(e, response) ==
    IF response.tag = "OK" THEN [e EXCEPT !.phase = "ready"]
    ELSE IF response.tag = "ERR" THEN Fail(e, into_result(response.err))
    ELSE IF response.tag = "Command"
    THEN LET password == unwrap_or_default(e.password)
             res == handle_response(e.auth_plugin, response.command,
                                    e.auth_plugin_data, password)
             e1 == handle(e, e.auth_plugin, response.command, e.auth_plugin_data,
                          password)
         IN IF res.error /= NoError THEN Fail(e1, res.error)
            ELSE IF res.data /= NoBody
            THEN stream_write_packet(e1, "AuthResponse", res.data)
            ELSE e1
    ELSE LET password == unwrap_or_default(e.password)
             e1 == [e EXCEPT !.auth_plugin = response.plugin,
                             !.auth_plugin_data = response.nonce]
             e2 == invoke(e1, e1.auth_plugin, e1.auth_plugin_data, password)
         IN stream_write_packet(e2, "AuthResponse",
                                invoke_response(e1.auth_plugin, e1.auth_plugin_data,
                                                password))

\* Handshake::deserialize: the handshake's plugin name is parsed, the handshake
\* holds the plugin and its data. An ERR packet sent in place of the Handshake
\* ends establishment.
Handshake_deserialize(e, packet) ==
    IF packet.tag = "ERR" THEN Fail(e, into_result(packet.err))
    ELSE LET e1 == AuthPlugin_parse(e, packet.plugin)
         IN IF e1.phase = "failed" THEN e1
            ELSE [e1 EXCEPT !.auth_plugin = packet.plugin,
                            !.auth_plugin_data = packet.nonce]

\* variant: the switch is built without parsing the name
AuthSwitch_deserialize_with_unparsed(e, packet) == e

\* AuthSwitch::deserialize_with: the name, the plugin data, then the plugin
\* parsed from the name
AuthSwitch_deserialize_with(e, packet) == AuthPlugin_parse(e, packet.plugin)

\* impl_connect!, up to the loop: the Handshake is read and answered
impl_connect_handshake(e, packet) ==
    LET e1 == Handshake_deserialize(read_packet(e, packet), packet)
    IN IF e1.phase = "failed" THEN e1
       ELSE [handle_handshake(e1, packet) EXCEPT !.phase = "auth"]

\* impl_connect!, one turn of the loop: a packet is read, decoded and handled
impl_connect_loop(e, packet) ==
    LET e0 == [read_packet(e, packet) EXCEPT !.steps = @ + 1]
        e1 == IF packet.tag = "Switch" THEN AuthSwitch_deserialize_with(e0, packet)
              ELSE e0
    IN IF e1.phase = "failed" THEN e1 ELSE handle_auth_response(e1, packet)

ConnectInit ==
    /\ conn = ConnInit
    /\ handles = <<>>
    /\ faults = FALSE
    /\ hist = <<>>
    /\ last = [op |-> "init"]
    /\ sq = SqIdle
    /\ fmt = FmtIdle
    /\ \E password \in Passwords : est = EstNew(password)

\* what the server sends first: a Handshake, or an ERR packet at once
FirstPackets ==
    {Handshake(name, nonce, capabilities) :
        name \in PluginNames, nonce \in Nonces, capabilities \in ServerCapabilities}
    \cup {[tag |-> "ERR", plugin |-> "none", nonce |-> 0, command |-> "none",
           err |-> b, capabilities |-> {}] : b \in ErrPackets}

Connect ==
    /\ est.phase = "start"
    /\ \E packet \in FirstPackets :
          est' = impl_connect_handshake(est, Sent(packet, est.sequence_id))
    /\ UNCHANGED <<conn, handles, faults, hist, last, sq, fmt>>

AuthLoop ==
    /\ est.phase = "auth"
    /\ est.steps < MaxAuthSteps
    /\ \E packet \in AuthPackets, seq \in ServerSeqs(est) :
          est' = impl_connect_loop(est, Sent(packet, seq))
    /\ UNCHANGED <<conn, handles, faults, hist, last, sq, fmt>>

\* the connection impl_connect returned is used: Ok(self_) is the one place
\* where the connection leaves the function, so the caller has none before it
ConnectedPing ==
    /\ est.phase = "ready"
    /\ \A i \in 1..Len(est.log) : est.log[i].k /= "q"
    /\ est' = Log(est, Step("q", "Ping", "none", 0, "", NoBody, NoErrBytes, 0))
    /\ UNCHANGED <<conn, handles, faults, hist, last, sq, fmt>>

ConnectNext == Connect \/ AuthLoop \/ ConnectedPing

SpecConnect == ConnectInit /\ [][ConnectNext]_vars

\* the End packets: OK, or a server error
EndPackets == {packet \in AuthPackets : packet.tag \in {"OK", "ERR"}}

\* the server ends the authentication, however many packets it sent before:
\* one more turn of the loop, which reads the End packet
AuthEnd ==
    /\ est.phase = "auth"
    /\ \E packet \in EndPackets, seq \in ServerSeqs(est) :
          est' = impl_connect_loop(est, Sent(packet, seq))
    /\ UNCHANGED <<conn, handles, faults, hist, last, sq, fmt>>

ConnectLiveNext == Connect \/ AuthLoop \/ AuthEnd \/ ConnectedPing

\* the caller of this run configured a password
ConnectLiveInit == ConnectInit /\ est.password = <<"secret">>

\* establishment against a server that sends its first packet and, after
\* finitely many packets of the loop, an End packet; the client reads each
\* packet that has arrived
SpecConnectLive ==
    /\ ConnectLiveInit
    /\ [][ConnectLiveNext]_vars
    /\ WF_vars(Connect)
    /\ WF_vars(AuthEnd)

\* ------------------------------- establishment: sqlx-core establish.rs

\* MySqlSslMode
SslModes == {"Disabled", "Preferred", "Required"}

\* handshake.auth_plugin: None ("none") or the plugin the server named
HandshakePlugins == {"none", "mysql_native_password", "caching_sha2_password",
                     "sha256_password"}

\* a server with TLS, one without, and one with TLS that declares fewer
\* capabilities and not PROTOCOL_41
TlsServerCapabilities ==
    {ClientCapabilities \cup {"CONNECT_WITH_DB", "SSL"},
     ClientCapabilities \cup {"CONNECT_WITH_DB"},
     {"LONG_PASSWORD", "LONG_FLAG", "TRANSACTIONS", "SECURE_CONNECTION", "SSL"}}

\* MySqlStream::connect: the stream asks for SSL as well
EstablishNew(ssl_mode, password) ==
    [phase |-> "start", password |-> password, ssl_mode |-> ssl_mode,
     capabilities |-> ClientCapabilities \cup {"SSL"}, server_capabilities |-> {},
     advertised |-> {}, tls |-> FALSE, auth_plugin |-> "none", auth_plugin_data |-> 0,
     sequence_id |-> 0, steps |-> 0, log |-> <<>>, error |-> NoError]

\* something other than a packet happens: the upgrade step, a scramble, a flush
Did(e, k, what) == Log(e, Step(k, what, "none", 0, "", NoBody, NoErrBytes, 0))

\* tls::maybe_upgrade: nothing when SSL is disabled; without SSL on the server
\* Preferred goes on in the clear and Required fails; otherwise SSLRequest is
\* written and the stream upgraded, which may fail
maybe_upgrade(e, tls_ok) ==
    IF e.ssl_mode = "Disabled" THEN Did(e, "maybe_upgrade", "disabled")
    ELSE IF "SSL" \notin e.capabilities
    THEN IF e.ssl_mode = "Preferred" THEN Did(e, "maybe_upgrade", "unsupported")
         ELSE Fail(Did(e, "maybe_upgrade", "err"),
                   Error(0, "", "server does not support TLS", "none"))
    ELSE LET e1 == Did(stream_write_packet(e, "SslRequest", NoBody), "flush", "")
         IN IF tls_ok THEN [Did(e1, "maybe_upgrade", "upgraded") EXCEPT !.tls = TRUE]
            ELSE Fail(Did(e1, "maybe_upgrade", "err"),
                      Error(0, "", "TLS upgrade failed", "none"))

\* AuthPlugin::scramble(stream, password, nonce)
scramble_response(plugin, nonce, password) ==
    IF password = "" THEN EmptyBody ELSE Body("scramble", plugin, nonce)

scramble(e, plugin, nonce, password) ==
    Log(e, Step("scramble", "", plugin, nonce, password,
                scramble_response(plugin, nonce, password), NoErrBytes, 0))

\* the auth response of the HandshakeResponse: Some(scramble) when there are a
\* plugin and a password, None otherwise
auth_response(e) ==
    IF e.auth_plugin /= "none" /\ e.password /= <<>>
    THEN scramble_response(e.auth_plugin, e.auth_plugin_data, e.password[1])
    ELSE NoBody

\* variant: the HandshakeResponse is written before the upgrade step
establish_upgrades_late(e, handshake, tls_ok) ==
    LET e1 == [read_packet(e, handshake)
                 EXCEPT !.auth_plugin = handshake.plugin,
                        !.auth_plugin_data = handshake.nonce,
                        !.server_capabilities = handshake.capabilities]
        e2 == [e1 EXCEPT !.capabilities =
                 ((@ \cap handshake.capabilities) \cup {"PROTOCOL_41"})
                 \ (IF e.ssl_mode = "Disabled" THEN {"SSL"} ELSE {})]
        e3 == IF e2.auth_plugin /= "none" /\ e2.password /= <<>>
              THEN scramble(e2, e2.auth_plugin, e2.auth_plugin_data, e2.password[1])
              ELSE e2
        e4 == [Did(stream_write_packet(e3, "HandshakeResponse", auth_response(e3)),
                   "flush", "")
                 EXCEPT !.advertised = e3.capabilities]
        e5 == maybe_upgrade(e4, tls_ok)
    IN IF e5.phase = "failed" THEN e5 ELSE [e5 EXCEPT !.phase = "auth"]

\* variant: the SSL capability stays when SSL is disabled
establish_keeps_ssl(e, handshake, tls_ok) ==
    LET e1 == [read_packet(e, handshake)
                 EXCEPT !.auth_plugin = handshake.plugin,
                        !.auth_plugin_data = handshake.nonce,
                        !.server_capabilities = handshake.capabilities]
        e2 == [e1 EXCEPT !.capabilities =
                 (@ \cap handshake.capabilities) \cup {"PROTOCOL_41"}]
        e3 == maybe_upgrade(e2, tls_ok)
        e4 == IF e3.auth_plugin /= "none" /\ e3.password /= <<>>
              THEN scramble(e3, e3.auth_plugin, e3.auth_plugin_data, e3.password[1])
              ELSE e3
    IN IF e3.phase = "failed" THEN e3
       ELSE [Did(stream_write_packet(e4, "HandshakeResponse", auth_response(e4)),
                 "flush", "")
               EXCEPT !.phase = "auth", !.advertised = e4.capabilities]

\* MySqlConnection::establish, up to the loop; the HandshakeResponse is encoded
\* with the stream's capabilities
establish(e, handshake, tls_ok) ==
    LET e1 == [read_packet(e, handshake)
                 EXCEPT !.auth_plugin = handshake.plugin,
                        !.auth_plugin_data = handshake.nonce,
                        !.server_capabilities = handshake.capabilities]
        e2 == [e1 EXCEPT !.capabilities =
                 ((@ \cap handshake.capabilities) \cup {"PROTOCOL_41"})
                 \ (IF e.ssl_mode = "Disabled" THEN {"SSL"} ELSE {})]
        e3 == maybe_upgrade(e2, tls_ok)
        e4 == IF e3.auth_plugin /= "none" /\ e3.password /= <<>>
              THEN scramble(e3, e3.auth_plugin, e3.auth_plugin_data, e3.password[1])
              ELSE e3
    IN IF e3.phase = "failed" THEN e3
       ELSE [Did(stream_write_packet(e4, "HandshakeResponse", auth_response(e4)),
                 "flush", "")
               EXCEPT !.phase = "auth", !.advertised = e4.capabilities]

\* AuthPlugin::handle(stream, packet, password, nonce) -> Result<bool>: done is
\* Ok(true); data is what it writes before Ok(false)
plugin_handle(plugin, command, nonce) ==
    IF plugin = "caching_sha2_password" /\ command = "fast_auth_ok"
    THEN [done |-> TRUE, data |-> NoBody, error |-> NoError]
    ELSE IF plugin = "caching_sha2_password" /\ command = "full_auth"
    THEN [done |-> FALSE, data |-> Body("encrypted", plugin, nonce), error |-> NoError]
    ELSE [done |-> FALSE, data |-> NoBody,
          error |-> Error(0, "", "unexpected packet for auth plugin", plugin)]

\* err_protocol!("unexpected packet 0x{:02x} during authentication", id) for
\* the first bytes a server packet of the loop may have
UnexpectedPacket(id) ==
    IF id = 1 THEN "unexpected packet 0x01 during authentication"
    ELSE IF id = 4 THEN "unexpected packet 0x04 during authentication"
    ELSE "unexpected packet 0xff during authentication"

\* variant: the packet is handed to the plugin whenever there is a plugin
establish_loop_needs_plugin_only(e, packet) ==
    LET e0 == [read_packet(e, packet) EXCEPT !.steps = @ + 1]
    IN IF packet.tag = "ERR" THEN Fail(e0, into_result(packet.err))
       ELSE IF packet.tag = "OK" THEN [e0 EXCEPT !.phase = "ready"]
       ELSE IF packet.tag = "Switch"
       THEN LET e1 == AuthPlugin_parse(e0, packet.plugin)
                e2 == [e1 EXCEPT !.auth_plugin = packet.plugin,
                                 !.auth_plugin_data = packet.nonce]
                password == unwrap_or_default(e.password)
                e3 == scramble(e2, packet.plugin, packet.nonce, password)
            IN IF e1.phase = "failed" THEN e1
               ELSE Did(stream_write_packet(e3, "AuthSwitchResponse",
                           scramble_response(packet.plugin, packet.nonce, password)),
                        "flush", "")
       ELSE IF e0.auth_plugin /= "none"
       THEN LET res == plugin_handle(e0.auth_plugin, packet.command,
                                     e0.auth_plugin_data)
                e1 == handle(e0, e0.auth_plugin, packet.command, e0.auth_plugin_data,
                             unwrap_or_default(e0.password))
            IN IF res.error /= NoError THEN Fail(e1, res.error)
               ELSE IF res.done THEN [e1 EXCEPT !.phase = "ready"]
               ELSE IF res.data /= NoBody
               THEN Did(stream_write_packet(e1, "AuthResponse", res.data), "flush", "")
               ELSE e1
       ELSE Fail(e0, Error(0, "", UnexpectedPacket(FirstByte(packet)), "none"))

\* MySqlConnection::establish, one turn of the loop
establish_loop(e, packet) ==
    LET e0 == [read_packet(e, packet) EXCEPT !.steps = @ + 1]
    IN IF packet.tag = "ERR" THEN Fail(e0, into_result(packet.err))
       ELSE IF packet.tag = "OK" THEN [e0 EXCEPT !.phase = "ready"]
       ELSE IF packet.tag = "Switch"
       THEN LET e1 == AuthPlugin_parse(e0, packet.plugin)
                e2 == [e1 EXCEPT !.auth_plugin = packet.plugin,
                                 !.auth_plugin_data = packet.nonce]
                password == unwrap_or_default(e.password)
                e3 == scramble(e2, packet.plugin, packet.nonce, password)
            IN IF e1.phase = "failed" THEN e1
               ELSE Did(stream_write_packet(e3, "AuthSwitchResponse",
                           scramble_response(packet.plugin, packet.nonce, password)),
                        "flush", "")
       ELSE IF e0.auth_plugin /= "none" /\ e0.password /= <<>>
       THEN LET res == plugin_handle(e0.auth_plugin, packet.command,
                                     e0.auth_plugin_data)
                e1 == handle(e0, e0.auth_plugin, packet.command, e0.auth_plugin_data,
                             e0.password[1])
            IN IF res.error /= NoError THEN Fail(e1, res.error)
               ELSE IF res.done THEN [e1 EXCEPT !.phase = "ready"]
               ELSE IF res.data /= NoBody
               THEN Did(stream_write_packet(e1, "AuthResponse", res.data), "flush", "")
               ELSE e1
       ELSE Fail(e0, Error(0, "", UnexpectedPacket(FirstByte(packet)), "none"))

EstablishInit ==
    /\ conn = ConnInit
    /\ handles = <<>>
    /\ faults = FALSE
    /\ hist = <<>>
    /\ last = [op |-> "init"]
    /\ sq = SqIdle
    /\ fmt = FmtIdle
    /\ \E ssl_mode \in SslModes, password \in Passwords :
          est = EstablishNew(ssl_mode, password)

Establish ==
    /\ est.phase = "start"
    /\ \E name \in HandshakePlugins, nonce \in Nonces,
          capabilities \in TlsServerCapabilities, tls_ok \in BOOLEAN :
          est' = establish(est, Sent(Handshake(name, nonce, capabilities),
                                     est.sequence_id), tls_ok)
    /\ UNCHANGED <<conn, handles, faults, hist, last, sq, fmt>>

EstablishLoop ==
    /\ est.phase = "auth"
    /\ est.steps < MaxAuthSteps
    /\ \E packet \in AuthPackets :
          est' = establish_loop(est, Sent(packet, est.sequence_id))
    /\ UNCHANGED <<conn, handles, faults, hist, last, sq, fmt>>

EstablishNext == Establish \/ EstablishLoop

SpecEstablish == EstablishInit /\ [][EstablishNext]_vars

\* ------------------------------------------------------------ properties

Writes(t) == SelectSeq(t, LAMBDA e : e.k = "w")

\* how many times the last operation entered a manager function or SQL helper
Entered(fn) == Len(SelectSeq(conn.calls, LAMBDA e : e.fn = fn))

\* a usize as decimal digits: at least one digit, no leading zero
IsDecimal(ds) ==
    /\ Len(ds) >= 1
    /\ \A i \in 1..Len(ds) : ds[i] \in 0..9
    /\ Len(ds) > 1 => ds[1] /= 0

RECURSIVE Value(_)
Value(ds) ==
    IF ds = <<>> THEN 0 ELSE 10 * Value(SubSeq(ds, 1, Len(ds) - 1)) + ds[Len(ds)]

Plain(sql, lit) == sql.lit = lit /\ sql.num = <<>>

Numbered(sql, lit, n) == sql.lit = lit /\ IsDecimal(sql.num) /\ Value(sql.num) = n

BeginText(sql, d) ==
    IF d = 0 THEN Plain(sql, "BEGIN")
    ELSE Numbered(sql, "SAVEPOINT _sqlx_savepoint_", d)

CommitText(sql, d) ==
    IF d = 1 THEN Plain(sql, "COMMIT")
    ELSE Numbered(sql, "RELEASE SAVEPOINT _sqlx_savepoint_", d - 1)

RollbackText(sql, d) ==
    IF d = 1 THEN Plain(sql, "ROLLBACK")
    ELSE Numbered(sql, "ROLLBACK TO SAVEPOINT _sqlx_savepoint_", d - 1)

\* C1: dropping a handle that is still open, on a connection at depth d >= 1,
\* writes exactly one packet, the rollback statement for d, into the write
\* buffer without reading anything, and appends exactly one owed-reply marker;
\* when commit or rollback succeeded, the drop that ends the call queues
\* nothing: no start_rollback runs, and nothing is left buffered or owed.
C1_DropQueuesOneRollback ==
    /\ (last.op = "drop" /\ last.h.open /\ last.d0 >= 1) =>
          /\ Len(conn.trace) = 1
          /\ conn.trace[1].k = "w"
          /\ conn.trace[1].cmd = "Query"
          /\ RollbackText(conn.trace[1].sql, last.d0)
          /\ conn.write_buffer = Append(last.buf0, Packet("Query", conn.trace[1].sql, 0))
          /\ Len(conn.waiting) = last.w0 + 1
    /\ (last.op \in {"commit", "rollback"} /\ conn.result) =>
          /\ Entered("start_rollback") = 0
          /\ Len(Writes(conn.trace)) = 1
          /\ conn.write_buffer = <<>>
          /\ conn.waiting = <<>>

\* a second handle is dropped while the first drop's rollback is still queued
C1_Witness ==
    last.op = "drop" /\ last.h.open /\ last.d0 >= 2 /\ last.w0 = 1

\* C2: a ping or flush that finds replies owed reads exactly those replies
\* first, in the order their rollbacks were queued, and empties the waiting
\* queue; ping writes its packet only after that, and the one reply it then
\* takes as its own is the reply to Ping, not a queued rollback's.
C2_OwedRepliesDrainedFirst ==
    (last.op \in {"ping", "flush"} /\ last.w0 >= 1) =>
        LET t == conn.trace
            n == Len(last.owed0)
        IN /\ n = last.w0
           /\ Len(t) = n + (IF last.op = "ping" THEN 2 ELSE 0)
           /\ \A i \in 1..n :
                /\ t[i] = Ev("r", last.owed0[i], TRUE)
                /\ t[i].cmd = "Query"
                /\ t[i].sql.lit \in {"ROLLBACK", "ROLLBACK TO SAVEPOINT _sqlx_savepoint_"}
           /\ conn.waiting = <<>>
           /\ last.op = "ping" =>
                /\ t[n + 1] = Ev("w", Packet("Ping", NoSql, 0), FALSE)
                /\ t[n + 2].k = "r" /\ t[n + 2].cmd = "Ping" /\ ~t[n + 2].owed

\* a ping with two rollbacks queued before it
C2_Witness ==
    last.op = "ping" /\ last.w0 >= 2 /\ Len(conn.trace) >= 4

\* C3 as stated: once commit or rollback was called on a handle, the drop-path
\* rollback does not fire for it.
C3_NoDropRollbackAfterExplicitCall ==
    last.op \in {"commit", "rollback"} => Entered("start_rollback") = 0

\* C3, amended: commit and rollback consume the handle (it is no longer live,
\* and no live handle is closed), the manager's commit or rollback runs once,
\* and the drop-path rollback runs for a handle exactly when no commit or
\* rollback succeeded on it: once after a call that returned an error, not at
\* all after one that succeeded. Either way the depth went down exactly once.
C3_EndsAtMostOnce ==
    /\ \A i \in 1..Len(handles) : handles[i].open
    /\ last.op \in {"commit", "rollback"} =>
          /\ Len(handles) = last.nh0 - 1
          /\ Entered(last.op) = 1
          /\ Entered("start_rollback") = (IF conn.result THEN 0 ELSE 1)
          /\ conn.transaction_depth = last.d0 - 1
    /\ last.op = "drop" =>
          /\ Len(handles) = last.nh0 - 1
          /\ Entered("commit") = 0 /\ Entered("rollback") = 0
          /\ Entered("start_rollback") = 1
          /\ conn.transaction_depth = last.d0 - 1

\* a commit that returned an error, followed by the drop's queued rollback
C3_Witness ==
    last.op = "commit" /\ ~conn.result /\ Entered("start_rollback") = 1
        /\ Len(conn.waiting) = 1

\* C4: the depth is never negative; begin adds one exactly when it succeeds;
\* commit and rollback subtract one exactly when they succeed at depth >= 1;
\* start_rollback subtracts one exactly at depth >= 1 (a handle's commit or
\* rollback that fails is followed by its drop's start_rollback); everything
\* else leaves the depth alone; and the commit and rollback SQL helpers are
\* only ever called with a depth >= 1.
C4_DepthSteps ==
    LET d0 == last.d0
        d1 == conn.transaction_depth
    IN /\ d1 >= 0
       /\ CASE last.op \in {"begin", "mgr_begin"} ->
                 d1 = (IF conn.result THEN d0 + 1 ELSE d0)
            [] last.op \in {"mgr_commit", "mgr_rollback"} ->
                 d1 = (IF conn.result /\ d0 >= 1 THEN d0 - 1 ELSE d0)
            [] last.op \in {"start_rollback", "drop", "commit", "rollback"} ->
                 d1 = (IF d0 >= 1 THEN d0 - 1 ELSE d0)
            [] OTHER -> d1 = d0
       /\ \A i \in 1..Len(conn.calls) :
            conn.calls[i].fn \in {"commit_ansi_transaction_sql",
                                  "rollback_ansi_transaction_sql"}
               => conn.calls[i].depth >= 1

\* a step up, a step down and a commit at depth 0 that changes nothing
C4_Witness ==
    /\ Len(hist) >= 3
    /\ LET n == Len(hist)
       IN /\ hist[n - 2].d1 = hist[n - 2].d0 + 1
          /\ hist[n - 1].d1 = hist[n - 1].d0 - 1
          /\ hist[n].op = "commit" /\ hist[n].d0 = 0 /\ hist[n].d1 = 0

\* C5: a begin that succeeds at depth d wrote exactly one packet, the begin
\* statement for d, and left the depth at d+1; a commit (rollback) that
\* succeeds at depth d >= 1 wrote exactly one packet, the commit (rollback)
\* statement for d, and left the depth at d-1.
C5_OneStatementPerStep ==
    LET w == Writes(conn.trace)
        d0 == last.d0
    IN /\ (last.op \in {"begin", "mgr_begin"} /\ conn.result) =>
             /\ Len(w) = 1 /\ w[1].cmd = "Query" /\ BeginText(w[1].sql, d0)
             /\ conn.transaction_depth = d0 + 1
       /\ (last.op \in {"commit", "mgr_commit"} /\ conn.result /\ d0 >= 1) =>
             /\ Len(w) = 1 /\ w[1].cmd = "Query" /\ CommitText(w[1].sql, d0)
             /\ conn.transaction_depth = d0 - 1
       /\ (last.op \in {"rollback", "mgr_rollback"} /\ conn.result /\ d0 >= 1) =>
             /\ Len(w) = 1 /\ w[1].cmd = "Query" /\ RollbackText(w[1].sql, d0)
             /\ conn.transaction_depth = d0 - 1

\* a rollback to a savepoint that succeeded
C5_Witness ==
    last.op = "rollback" /\ conn.result /\ last.d0 >= 2
        /\ Len(Writes(conn.trace)) = 1

\* C6: begin(0) is BEGIN and begin(d), d >= 1, is SAVEPOINT _sqlx_savepoint_
\* followed by d in decimal; commit(1) is COMMIT and commit(d), d >= 2, is
\* RELEASE SAVEPOINT _sqlx_savepoint_ followed by d-1; rollback(1) is ROLLBACK
\* and rollback(d), d >= 2, is ROLLBACK TO SAVEPOINT _sqlx_savepoint_ followed
\* by d-1.
C6_TextOfDepth ==
    /\ fmt.fn = "begin" => BeginText(fmt.text, fmt.depth)
    /\ fmt.fn = "commit" => CommitText(fmt.text, fmt.depth)
    /\ fmt.fn = "rollback" => RollbackText(fmt.text, fmt.depth)

\* the rollback text of a depth whose savepoint number has three digits
C6_Witness ==
    fmt.fn = "rollback" /\ Len(fmt.text.num) = 3

\* the last three manager operations were a begin at depth d >= 1, a commit
\* and a rollback, one right after the other, and all three succeeded
BeginCommitRollback ==
    /\ Len(hist) >= 3
    /\ LET n == Len(hist)
       IN /\ hist[n - 2].op = "begin" /\ hist[n - 2].ok /\ hist[n - 2].d0 >= 1
          /\ hist[n - 1].op = "commit" /\ hist[n - 1].ok
          /\ hist[n].op = "rollback" /\ hist[n].ok

\* C7 as stated: after begin at d, commit at d+1 and rollback at d the counter
\* is d again.
C7_CounterRestored ==
    BeginCommitRollback => conn.transaction_depth = hist[Len(hist) - 2].d0

\* C7, amended: the commit runs at depth d+1 and restores the counter to d;
\* the rollback then runs at depth d and leaves the counter at d-1.
C7_CounterOneBelow ==
    BeginCommitRollback =>
        LET n == Len(hist)
            d == hist[n - 2].d0
        IN /\ hist[n - 1].d0 = d + 1
           /\ hist[n - 1].d1 = d
           /\ hist[n].d0 = d
           /\ hist[n].d1 = d - 1
           /\ conn.transaction_depth = d - 1

C7_Witness ==
    BeginCommitRollback /\ hist[Len(hist) - 2].d0 >= 2 /\ last.op = "rollback"

\* C8: at depth 0, the manager's commit, rollback and start_rollback write
\* nothing and read nothing, leave the write buffer, the unread replies, the
\* waiting queue, the sequence counter and the depth as they were, and (commit,
\* rollback) return Ok whatever the server would have answered.
C8_NoOpAtDepthZero ==
    (last.op \in {"mgr_commit", "mgr_rollback", "start_rollback"} /\ last.d0 = 0) =>
        /\ conn.trace = <<>>
        /\ conn.write_buffer = last.buf0
        /\ Owed(conn) = last.owed0
        /\ Len(conn.waiting) = last.w0
        /\ conn.sequence_id = last.seq0
        /\ conn.transaction_depth = 0
        /\ conn.result

\* a commit at depth 0 while an earlier rollback is still queued, on a server
\* that would have rejected a statement
C8_Witness ==
    last.op = "mgr_commit" /\ last.d0 = 0 /\ last.w0 = 1 /\ ~last.ok

\* C9: no drop-path rollback panics, whatever write_packet returns.
C9_DropNeverPanics ==
    ~conn.panicked

\* C10: a prepare with persistent = false, or on a cache of capacity 0, issues
\* exactly one prepare, a one-shot one, makes no lookup, insert or get on the
\* cache, evicts and resets nothing, and leaves the cache's entries and their
\* recency order as they were; what it returns is the one-shot statement.
C10_OneShotLeavesCacheAlone ==
    (sq.call.query /= 0 /\ (~sq.call.persistent \/ sq.capacity = 0)) =>
        /\ sq.prepared = <<Statement(sq.call.query, FALSE)>>
        /\ sq.ops = <<>>
        /\ sq.cache = sq.cache0
        /\ sq.evicted = <<>>
        /\ sq.resets = <<>>
        /\ sq.result =>
             /\ sq.returned = <<Statement(sq.call.query, FALSE)>>
             /\ sq.statement = sq.returned

\* a one-shot prepare of a text that sits in a full cache
C10_Witness ==
    /\ sq.call.query /= 0 /\ ~sq.call.persistent /\ sq.result
    /\ sq.capacity >= 2 /\ Len(sq.cache) = sq.capacity
    /\ contains_key(sq.cache, sq.call.query)

\* the running call went through the cache
CachedCall == sq.call.query /= 0 /\ sq.call.persistent /\ sq.capacity > 0

CachedHit == CachedCall /\ contains_key(sq.cache0, sq.call.query)

CachedMiss == CachedCall /\ ~contains_key(sq.cache0, sq.call.query)

\* C11: with persistent = true and capacity > 0, a call for a cached text issues
\* no prepare, resets the cached statement once and returns it; a call for a
\* text that is not cached issues exactly one prepare and, when SQLite accepts
\* the text, inserts the statement under that text and returns it without a
\* reset. No text has had more than one persistent prepare since it entered
\* the cache.
C11_PreparedOncePerCachedText ==
    /\ CachedHit =>
         /\ sq.prepared = <<>>
         /\ sq.resets = <<sq.call.query>>
         /\ sq.result /\ sq.returned = <<Statement(sq.call.query, TRUE)>>
         /\ sq.evicted = <<>>
         /\ \A q \in 1..NumQueries :
              contains_key(sq.cache, q) <=> contains_key(sq.cache0, q)
    /\ CachedMiss =>
         /\ sq.prepared = <<Statement(sq.call.query, TRUE)>>
         /\ sq.resets = <<>>
         /\ sq.result =>
              /\ contains_key(sq.cache, sq.call.query)
              /\ Count(sq.ops, "insert") = 1
              /\ sq.returned = <<Statement(sq.call.query, TRUE)>>
    /\ \A q \in 1..NumQueries :
         /\ sq.live[q] <= 1
         /\ contains_key(sq.cache, q) => sq.live[q] = 1

\* a cached text is asked for again after the cache has pushed an entry out
C11_Witness ==
    /\ CachedHit /\ sq.resets = <<sq.call.query>>
    /\ sq.evictions >= 1 /\ sq.live[sq.call.query] = 1

\* the cached text used longest ago when the running call started
LeastRecentlyUsed == Head(sq.recency0)

\* C12: the cache never holds more than capacity entries; a persistent prepare
\* that inserts into a full cache pushes out exactly one entry, the one used
\* longest ago, and that statement is finalized, once; any other call pushes
\* out nothing. When capacity + 1 statements have been inserted, exactly one
\* entry has been pushed out and exactly one finalization has happened.
C12_OneEvictionPastCapacity ==
    /\ Len(sq.cache) <= sq.capacity
    /\ (CachedMiss /\ sq.result /\ Len(sq.cache0) = sq.capacity) =>
         /\ sq.evicted = <<Statement(LeastRecentlyUsed, TRUE)>>
         /\ ~contains_key(sq.cache, LeastRecentlyUsed)
         /\ Len(sq.cache) = sq.capacity
    /\ ~(CachedMiss /\ sq.result /\ Len(sq.cache0) = sq.capacity) => sq.evicted = <<>>
    /\ sq.finalized = sq.evicted
    /\ (sq.capacity > 0 /\ sq.inserts = sq.capacity + 1) =>
         sq.evictions = 1 /\ sq.finalizations = 1

\* the insert number capacity + 1 into a cache of two or more entries
C12_Witness ==
    /\ CachedMiss /\ sq.result /\ sq.capacity >= 2
    /\ sq.inserts = sq.capacity + 1
    /\ sq.evicted /= <<>> /\ sq.evictions = 1

\* the StmtClose packets the running operation wrote
Closes == SelectSeq(conn.trace, LAMBDA e : e.k = "w" /\ e.cmd = "StmtClose")

\* the entries the running operation took out of the cache
Removals == SelectSeq(conn.trace, LAMBDA e : e.k = "rm")

CachedIds(cache) == {cache[i].statement : i \in 1..Len(cache)}

\* C13: a StmtClose for a statement is written before its entry leaves the
\* cache, and no statement is open on the server without an entry in the cache.
C13_DeallocatedBeforeRemoved ==
    /\ \A i \in 1..Len(conn.trace) :
         conn.trace[i].k = "rm" =>
            \E j \in 1..(i - 1) : /\ conn.trace[j].k = "w"
                                  /\ conn.trace[j].cmd = "StmtClose"
                                  /\ conn.trace[j].sql = conn.trace[i].sql
    /\ conn.stmts \subseteq CachedIds(conn.cache_statement)

Steps == 1..Len(est.log)

OnWire(i) == est.log[i].k \in {"r", "w"}

Read(i, what) == est.log[i].k = "r" /\ est.log[i].what = what

\* C15: a server error packet read in the auth loop is the last thing that
\* happens on the transport: establishment has failed with the packet's code
\* (its two bytes read low byte first), SQL state and message, nothing is
\* written or read after it, and no plugin runs after it.
C15_ServerErrorEndsEstablishment ==
    \A i \in Steps :
        Read(i, "ERR") =>
            /\ i = Len(est.log)
            /\ est.phase = "failed"
            /\ est.error.code = est.log[i].err.lo + 256 * est.log[i].err.hi
            /\ est.error.state = est.log[i].err.state
            /\ est.error.message = est.log[i].err.message

\* access is denied (1045) after a Command round was answered with a packet
C15_Witness ==
    /\ est.phase = "failed" /\ est.error.code = 1045
    /\ est.error.message = "Access denied for user"
    /\ Read(Len(est.log), "ERR")
    /\ \E j \in Steps : Read(j, "Command") /\ est.log[j + 2].k = "w"

\* C16: once a Switch packet naming dialog is read, establishment has failed and
\* no packet is written or read after it.
C16_DialogEndsAtItsName ==
    \A i \in Steps :
        (Read(i, "Switch") /\ est.log[i].plugin = "dialog") =>
            /\ est.phase = "failed"
            /\ \A j \in Steps : j > i => ~OnWire(j)

\* the server has named mysql_old_password in the packet read at step i
NamesOldPassword(i) ==
    /\ Read(i, "Handshake") \/ Read(i, "Switch")
    /\ est.log[i].plugin = "mysql_old_password"

\* C17: when the server names mysql_old_password, in the Handshake or in a
\* Switch packet, the next step is the failing parse of that name and it is the
\* last one: establishment has failed with error 2059 for that plugin, nothing
\* is written or read afterwards, and no invoke or handle of that plugin runs.
C17_OldPasswordFailsAtParse ==
    /\ \A i \in Steps :
         NamesOldPassword(i) =>
            /\ Len(est.log) = i + 1
            /\ est.log[i + 1].k = "parse" /\ est.log[i + 1].what = "err"
            /\ est.log[i + 1].plugin = "mysql_old_password"
            /\ est.phase = "failed"
            /\ est.error = Error(2059, "HY000", "cannot be loaded", "mysql_old_password")
    /\ \A i \in Steps :
         est.log[i].k \in {"invoke", "handle"} =>
            est.log[i].plugin /= "mysql_old_password"

\* mysql_old_password is named in a Switch packet, after the HandshakeResponse
C17_Witness ==
    /\ Len(est.log) > 2 /\ NamesOldPassword(Len(est.log) - 1)
    /\ Read(Len(est.log) - 1, "Switch")
    /\ est.phase = "failed" /\ est.error.code = 2059
    /\ \E i \in Steps : est.log[i].k = "w" /\ est.log[i].what = "HandshakeResponse"

\* the last Switch packet read before step j, 0 if there is none
LastSwitch(j) ==
    IF \E i \in 1..(j - 1) : Read(i, "Switch")
    THEN CHOOSE i \in 1..(j - 1) :
            Read(i, "Switch") /\ \A k \in (i + 1)..(j - 1) : ~Read(k, "Switch")
    ELSE 0

\* C18: a Switch packet whose plugin name parses is followed by exactly one
\* invoke, of the named plugin with the packet's nonce, and then by exactly one
\* written packet, which carries what that invoke returned; every invoke and
\* handle after it, up to the next Switch, is the named plugin's and is given
\* the packet's nonce.
C18_SwitchReplacesPluginAndNonce ==
    /\ \A i \in Steps :
         (Read(i, "Switch") /\ est.log[i].plugin \in Plugins) =>
            /\ Len(est.log) >= i + 3
            /\ est.log[i + 1].k = "parse"
            /\ est.log[i + 2].k = "invoke"
            /\ est.log[i + 2].plugin = est.log[i].plugin
            /\ est.log[i + 2].nonce = est.log[i].nonce
            /\ est.log[i + 3].k = "w"
            /\ est.log[i + 3].body = est.log[i + 2].body
            /\ Len(est.log) > i + 3 => est.log[i + 4].k = "r"
    /\ \A j \in Steps :
         (est.log[j].k \in {"invoke", "handle"} /\ LastSwitch(j) /= 0) =>
            /\ est.log[j].plugin = est.log[LastSwitch(j)].plugin
            /\ est.log[j].nonce = est.log[LastSwitch(j)].nonce
    /\ \A j \in Steps :
         (est.log[j].k = "w" /\ est.log[j].body.kind \notin {"empty", "none"}
            /\ LastSwitch(j) /= 0) =>
            /\ est.log[j].body.plugin = est.log[LastSwitch(j)].plugin
            /\ est.log[j].body.nonce = est.log[LastSwitch(j)].nonce

\* after a native-password handshake the server switches to caching_sha2 with
\* another nonce, then asks for full authentication
C18_Witness ==
    \E i, j \in Steps :
        /\ Read(1, "Handshake") /\ est.log[1].plugin = "mysql_native_password"
        /\ Read(i, "Switch") /\ est.log[i].plugin = "caching_sha2_password"
        /\ est.log[i].nonce /= est.log[1].nonce
        /\ i < j /\ est.log[j].k = "handle" /\ est.log[j].what = "full_auth"
        /\ est.log[j].nonce = est.log[i].nonce
        /\ est.log[j + 1].k = "w"

\* C20: a packet with an empty credential is written only when the caller
\* configured the empty password.
C20_EmptyCredentialOnlyIfConfigured ==
    \A i \in Steps :
        (est.log[i].k = "w" /\ est.log[i].body = EmptyBody) => est.password = <<"">>

\* at step i a credential is computed, handed to a plugin, or written
Credential(i) ==
    \/ est.log[i].k \in {"scramble", "handle"}
    \/ /\ est.log[i].k = "w"
       /\ est.log[i].what \in {"HandshakeResponse", "AuthSwitchResponse", "AuthResponse"}

UpgradeStep(i) == est.log[i].k = "maybe_upgrade"

\* C19: every scramble and every written HandshakeResponse or auth response
\* comes after the upgrade step, and that step did not fail; when it fails it
\* is the last step, establishment has failed and no credential was computed or
\* written; when TLS was asked for and the server offers it, the stream is
\* upgraded before the first credential step.
C19_UpgradeBeforeCredentials ==
    /\ \A i \in Steps :
         Credential(i) =>
            \E j \in 1..(i - 1) : UpgradeStep(j) /\ est.log[j].what /= "err"
    /\ \A j \in Steps :
         (UpgradeStep(j) /\ est.log[j].what = "err") =>
            /\ j = Len(est.log)
            /\ est.phase = "failed"
            /\ \A i \in Steps : ~Credential(i)
    /\ \A i \in Steps :
         (Credential(i) /\ est.ssl_mode /= "Disabled"
            /\ "SSL" \in est.server_capabilities) =>
            /\ est.tls
            /\ \E j \in 1..(i - 1) : UpgradeStep(j) /\ est.log[j].what = "upgraded"
    /\ (est.ssl_mode = "Required" /\ \E i \in Steps : Credential(i)) => est.tls

\* TLS is required, the stream is upgraded, and the scramble of the password
\* is then written in the HandshakeResponse
C19_Witness ==
    /\ est.ssl_mode = "Required" /\ est.tls
    /\ \E j, i \in Steps :
          /\ UpgradeStep(j) /\ est.log[j].what = "upgraded"
          /\ j < i /\ est.log[i].k = "w" /\ est.log[i].what = "HandshakeResponse"
          /\ est.log[i].body.kind = "scramble"

\* the places in the running operation's trace of a kind of event
TraceAt(k) == {i \in 1..Len(conn.trace) : conn.trace[i].k = k}

Quits == {i \in TraceAt("w") : conn.trace[i].cmd = "Quit"}

\* C21: close sends the quit message and only afterwards shuts the transport
\* down: a close that succeeds wrote one Quit and then shut down once, nothing
\* is written after the shutdown and none happens without the Quit before it.
\* close_hard shuts the transport down without writing anything to the server:
\* no packet is written and what was buffered or unread stays as it was.
C21_QuitThenShutdown ==
    /\ last.op = "close" =>
         /\ conn.closed
         /\ Cardinality(TraceAt("sd")) <= 1
         /\ conn.result => Cardinality(TraceAt("sd")) = 1 /\ Cardinality(Quits) = 1
         /\ \A i \in TraceAt("sd") :
               /\ \E j \in Quits : j < i
               /\ \A j \in TraceAt("w") : j < i
    /\ last.op = "close_hard" =>
         /\ conn.closed
         /\ TraceAt("w") = {}
         /\ Cardinality(TraceAt("sd")) = 1
         /\ conn.write_buffer = last.buf0
         /\ Owed(conn) = last.owed0

\* a close that sent Quit and then shut the transport down
C21_Witness ==
    /\ last.op = "close"
    /\ conn.result
    /\ Len(conn.trace) = 2
    /\ conn.trace[1].k = "w" /\ conn.trace[1].cmd = "Quit"
    /\ conn.trace[2].k = "sd"

\* the places in the establishment log of a kind of step
StepsOf(k) == {i \in Steps : est.log[i].k = k}

\* the End packets read: OK and ERR
Ends == {i \in StepsOf("r") : est.log[i].what \in {"OK", "ERR"}}

HandshakeResponses == {i \in StepsOf("w") : est.log[i].what = "HandshakeResponse"}

\* C22: establishment passes through its states in order. The first thing it
\* does is read the server's first packet; the HandshakeResponse is written once,
\* after the Handshake and before any packet of the auth loop is read, and every
\* other packet is written inside the loop. An End packet is the last packet
\* read. The connection is ready only when that End packet carried OK, is
\* failed only with an error, and is otherwise still in the loop; the caller
\* issues a command only on a ready connection.
C22_EstablishmentInOrder ==
    /\ est.phase = "start" <=> est.log = <<>>
    /\ est.log /= <<>> => est.log[1].k = "r" /\ est.log[1].what \in {"Handshake", "ERR"}
    /\ Cardinality(HandshakeResponses) <= 1
    /\ \A i \in HandshakeResponses :
          /\ est.log[1].what = "Handshake"
          /\ \A j \in StepsOf("r") : j = 1 \/ i < j
          /\ \A j \in StepsOf("w") : i <= j
    /\ \A i \in StepsOf("r") : i > 1 => HandshakeResponses /= {}
    /\ \A i \in Ends : \A j \in StepsOf("r") \cup StepsOf("w") : j <= i
    /\ est.phase = "ready" =>
          \E i \in Ends : est.log[i].what = "OK" /\ i > 1
    /\ est.phase = "auth" => Ends = {} /\ HandshakeResponses /= {}
    /\ est.phase = "failed" => est.error /= NoError /\ StepsOf("q") = {}
    /\ \A i \in StepsOf("q") : \E j \in Ends : j < i /\ est.log[j].what = "OK"

\* a connection that became ready after a Command round and was then used
C22_Witness ==
    /\ est.phase = "ready"
    /\ StepsOf("q") /= {}
    /\ \E i \in StepsOf("r") : est.log[i].what = "Command"
    /\ \E i \in StepsOf("w") : est.log[i].what = "AuthResponse"

\* the running call executed a statement it had found in the cache, and SQLite
\* answered with something unexpected
StaleHit ==
    /\ sq.executed /= <<>>
    /\ sq.executed[1].run = "unexpected"
    /\ sq.executed[1].statement.persistent
    /\ contains_key(sq.cache0, sq.call.query)

\* C23: an unexpected response to a cached statement invalidates that cache
\* entry and triggers exactly one one-shot retry of that query: the entry is
\* gone from the cache, the text was prepared once more as a one-shot statement
\* and that statement was executed.
C23_StaleEntryInvalidatedAndRetried ==
    StaleHit =>
        /\ ~contains_key(sq.cache, sq.call.query)
        /\ Count(sq.prepared, Statement(sq.call.query, FALSE)) = 1
        /\ Len(sq.executed) = 2
        /\ ~sq.executed[2].statement.persistent

\* the replies outstanding just before the i-th event of the running operation:
\* those outstanding when it started, plus the requests it has written that
\* the server answers, minus the replies it has read
Outstanding(i) ==
    Len(last.owed0)
    + Cardinality({j \in TraceAt("w") : j < i /\ conn.trace[j].cmd \notin Unanswered})
    - Cardinality({j \in TraceAt("r") : j < i})

\* C24: at most one request is awaiting its reply: no operation, the drop-path
\* start_rollback included, writes a request while the reply to an earlier
\* request is outstanding.
C24_OneRequestInFlight ==
    /\ \A i \in TraceAt("w") : Outstanding(i) = 0
    /\ Len(Owed(conn)) <= 1

\* the plugin and nonce of the Handshake that was read first
FirstPlugin == est.log[1].plugin

FirstNonce == est.log[1].nonce

LoopReads == StepsOf("r") \ {1}

\* the next packet read after step i (past the end of the log if there is none)
NextRead(i) ==
    IF \E j \in StepsOf("r") : j > i
    THEN CHOOSE j \in StepsOf("r") : j > i /\ \A k \in StepsOf("r") : k > i => j <= k
    ELSE Len(est.log) + 1

\* the packets written in the turn of the loop that read step i
Written(i) == {j \in StepsOf("w") : i < j /\ j < NextRead(i)}

\* the plugin and nonce in force when step i was read
CurrentPlugin(i) ==
    IF LastSwitch(i) /= 0 THEN est.log[LastSwitch(i)].plugin ELSE FirstPlugin

CurrentNonce(i) ==
    IF LastSwitch(i) /= 0 THEN est.log[LastSwitch(i)].nonce ELSE FirstNonce

\* C26: each turn of the auth loop reads exactly one packet. An End packet ends
\* the loop without a write: OK gives Ready, a server error gives Failed. A
\* Command packet is given to the current plugin's handle with the current
\* nonce; exactly one packet, carrying what handle returned, is written if it
\* returned bytes, and none if it returned none. A Switch packet makes its
\* plugin and nonce the current ones and exactly one packet is written, carrying
\* what the new plugin's invoke returned.
C26_OneReadOneReaction ==
    /\ Cardinality(LoopReads) = est.steps
    /\ \A i \in LoopReads :
         /\ est.log[i].what \in {"OK", "ERR"} =>
               /\ Written(i) = {}
               /\ NextRead(i) = Len(est.log) + 1
               /\ est.phase = (IF est.log[i].what = "OK" THEN "ready" ELSE "failed")
         /\ est.log[i].what = "Command" =>
               /\ est.log[i + 1].k = "handle"
               /\ est.log[i + 1].plugin = CurrentPlugin(i)
               /\ est.log[i + 1].nonce = CurrentNonce(i)
               /\ IF est.log[i + 1].body /= NoBody
                  THEN /\ Written(i) = {i + 2}
                       /\ est.log[i + 2].body = est.log[i + 1].body
                  ELSE Written(i) = {}
         /\ (est.log[i].what = "Switch" /\ est.log[i + 1].what = "ok") =>
               /\ est.log[i + 2].k = "invoke"
               /\ est.log[i + 2].plugin = est.log[i].plugin
               /\ est.log[i + 2].nonce = est.log[i].nonce
               /\ Written(i) = {i + 3}
               /\ est.log[i + 3].body = est.log[i + 2].body
               /\ CurrentPlugin(i + 1) = est.log[i].plugin
               /\ CurrentNonce(i + 1) = est.log[i].nonce

\* caching_sha2 reports fast authentication: handle returns none, nothing is
\* written, and the next packet read is the OK that ends the loop
C26_Witness ==
    /\ est.phase = "ready"
    /\ est.steps = 2
    /\ \E i \in LoopReads :
          /\ est.log[i].what = "Command"
          /\ est.log[i + 1].body = NoBody
          /\ Written(i) = {}
          /\ NextRead(i) = i + 2

\* the last operation was start_rollback alone, at depth >= 1: called on the
\* manager, or by the drop of an open handle
QueuedRollback ==
    /\ last.d0 >= 1
    /\ \/ last.op = "start_rollback"
       \/ last.op = "drop" /\ last.h.open

\* C27: start_rollback at depth d >= 1 completes without reading from the
\* transport: it appends exactly one owed-reply marker, resets the sequence
\* counter to 0 so that its packet carries id 0, writes the rollback statement
\* for d into the write buffer behind what is buffered already, and sets the
\* depth to d - 1. should_flush() reports true from then on while the bytes
\* are buffered, that is while a queued rollback has not been flushed, and
\* false after ping or flush sent them.
C27_StartRollbackQueuesSynchronously ==
    /\ QueuedRollback =>
          /\ TraceAt("r") = {}
          /\ conn.replies = SubSeq(last.owed0, 1, Len(conn.replies))
          /\ Len(last.owed0) = Len(conn.replies) + Len(Replies(last.buf0))
          /\ conn.waiting = [i \in 1..(last.w0 + 1) |-> "Result"]
          /\ Cardinality(TraceAt("w")) = 1
          /\ \A i \in TraceAt("w") :
                /\ conn.trace[i].seq = 0
                /\ conn.trace[i].cmd = "Query"
                /\ RollbackText(conn.trace[i].sql, last.d0)
                /\ conn.write_buffer =
                      Append(last.buf0, Packet("Query", conn.trace[i].sql, 0))
          /\ conn.sequence_id = 1
          /\ conn.transaction_depth = last.d0 - 1
          /\ should_flush(conn)
    /\ conn.waiting /= <<>> => should_flush(conn)
    /\ last.op \in {"ping", "flush"} => ~should_flush(conn) /\ conn.waiting = <<>>

\* start_rollback at depth 2 on a connection whose counter was not 0, and the
\* connection has not been used since
C27_Witness ==
    /\ QueuedRollback
    /\ last.d0 = 2
    /\ last.seq0 /= 0
    /\ should_flush(conn)
    /\ conn.transaction_depth = 1

\* C28: before a new command is issued, every reply still owed for a queued
\* operation has been read, oldest first: whenever an operation other than the
\* queueing start_rollback itself writes a packet (Quit and StmtClose
\* included), no reply is outstanding, and the owed replies it read came
\* before its first write.
C28_OwedRepliesReadBeforeCommand ==
    last.op /= "drop" =>
        \A i \in TraceAt("w") :
            /\ Outstanding(i) = 0
            /\ \A j \in TraceAt("r") : conn.trace[j].owed => j < i

\* the handshake has been processed: the capabilities are negotiated
Negotiated == est.phase /= "start" /\ est.server_capabilities /= {}

\* what the client asks for, and what is forced on or off whatever the server
\* declares: establish.rs asks for SSL as well, forces PROTOCOL_41 on and,
\* when SSL is disabled, SSL off; connect.rs asks for CONNECT_WITH_DB as well
Desired ==
    IF "ssl_mode" \in DOMAIN est THEN ClientCapabilities \cup {"SSL"}
    ELSE ClientCapabilities \cup {"CONNECT_WITH_DB"}

ForcedOn == IF "ssl_mode" \in DOMAIN est THEN {"PROTOCOL_41"} ELSE {}

ForcedOff ==
    IF "ssl_mode" \in DOMAIN est /\ est.ssl_mode = "Disabled" THEN {"SSL"} ELSE {}

\* C29: after the handshake is processed the connection's capabilities are the
\* client-desired ones the server declared, apart from the forced ones: every
\* capability but the forced-on PROTOCOL_41 is declared by the server,
\* PROTOCOL_41 is set, SSL is absent when the caller disabled TLS whatever the
\* server declared, and the HandshakeResponse advertises exactly this set.
C29_CapabilitiesNegotiated ==
    Negotiated =>
        /\ est.capabilities = (((Desired \cap est.server_capabilities) \cup ForcedOn)
                               \ ForcedOff)
        /\ (est.capabilities \ {"PROTOCOL_41"}) \subseteq est.server_capabilities
        /\ ForcedOn \subseteq est.capabilities
        /\ est.capabilities \cap ForcedOff = {}
        /\ \A i \in HandshakeResponses : est.advertised = est.capabilities

\* SSL is disabled, the server declares SSL but not PROTOCOL_41, and the
\* HandshakeResponse has been written
C29_Witness ==
    /\ Negotiated
    /\ est.ssl_mode = "Disabled"
    /\ "SSL" \in est.server_capabilities
    /\ "PROTOCOL_41" \notin est.server_capabilities
    /\ HandshakeResponses /= {}
    /\ est.advertised = {"PROTOCOL_41", "LONG_PASSWORD", "LONG_FLAG", "TRANSACTIONS",
                         "SECURE_CONNECTION"}

\* the packets read and written, in the order they crossed the wire
WireSteps == {i \in Steps : OnWire(i)}

\* the value the shared counter holds when step i crosses the wire: 0 for the
\* first packet of the exchange, one past the packet before it otherwise
ExpectedSeq(i) ==
    IF \E j \in WireSteps : j < i
    THEN LET prev == CHOOSE j \in WireSteps :
                         j < i /\ \A k \in WireSteps : k < i => k <= j
         IN (est.log[prev].seq + 1) % Pow2(SeqIdBits)
    ELSE 0

\* the packets read with a sequence id other than the counter's value
Mismatched == {i \in StepsOf("r") : est.log[i].seq /= ExpectedSeq(i)}

\* C30: a packet received with a sequence id different from the value the
\* shared counter expects fails the connection: establishment is failed, and
\* nothing is read or written after that packet, also when the client wrote
\* nothing in reply to the server packet before it.
C30_SequenceMismatchFails ==
    \A i \in Mismatched :
        /\ est.phase = "failed"
        /\ \A j \in WireSteps : j <= i

\* the exchange of should_reconnect_default_caching_sha2_auth: the server's
\* Command packet 0x03 with id 2 is answered by nothing, its OK comes with
\* id 4, and the connection is ready
C30_MismatchAccepted ==
    /\ est.phase = "ready"
    /\ \E i \in Mismatched :
          /\ est.log[i].what = "OK"
          /\ est.log[i].seq = 4
          /\ \E j \in StepsOf("r") :
                /\ j < i
                /\ est.log[j].what = "Command"
                /\ est.log[j].seq = 2
                /\ NextRead(j) = i
                /\ Written(j) = {}

\* the server packet a written packet answers: the last one read before it
Answered(j) ==
    CHOOSE i \in StepsOf("r") : i < j /\ \A k \in StepsOf("r") : k < j => k <= i

\* C31: during the connection phase every packet the client writes carries the
\* sequence id one greater than the id of the server packet it answers, in the
\* HandshakeResponse and in the answers to Command and Switch packets alike.
C31_ClientIdFollowsServerId ==
    \A j \in StepsOf("w") :
        /\ \E i \in StepsOf("r") : i < j
        /\ est.log[j].seq = (est.log[Answered(j)].seq + 1) % Pow2(SeqIdBits)

\* server 0, client 1, a Switch with id 2, client 3, a Command with id 4,
\* client 5
C31_Witness ==
    \E a, b, c \in StepsOf("w") :
        /\ est.log[a].what = "HandshakeResponse" /\ est.log[a].seq = 1
        /\ est.log[Answered(a)].seq = 0
        /\ est.log[Answered(b)].what = "Switch" /\ est.log[Answered(b)].seq = 2
        /\ est.log[b].seq = 3
        /\ est.log[Answered(c)].what = "Command" /\ est.log[Answered(c)].seq = 4
        /\ est.log[c].seq = 5

\* the Command packets handed to caching_sha2_password, by the command
Sha2Handles(command) ==
    {h \in StepsOf("handle") : /\ est.log[h].plugin = "caching_sha2_password"
                               /\ est.log[h].what = command}

\* the packets written in answer to the Command packet of handle step h
AnswersTo(h) == Written(Answered(h))

\* the kinds of the packets the client has written, in order
WrittenKinds ==
    LET w == SelectSeq(est.log, LAMBDA st : st.k = "w")
    IN [n \in 1..Len(w) |-> IF w[n].what = "HandshakeResponse" THEN "HandshakeResponse"
                            ELSE w[n].body.kind]

\* C32: under caching_sha2_password a Command packet with fast-auth success
\* is answered by nothing and does not complete establishment: the connection
\* is ready only once an End packet with OK has been read after it. A Command
\* packet asking for full authentication is answered by exactly one packet,
\* the one-byte public key request; a Command packet carrying the key is
\* answered by exactly one packet, the encrypted password. When the handshake
\* names the plugin and the server asks for full authentication and then
\* sends the key, the packets the client has written by then are the
\* HandshakeResponse, the key request and the encrypted password, in this
\* order.
C32_CachingSha2Reactions ==
    /\ \A h \in Sha2Handles("fast_auth_ok") :
          /\ AnswersTo(h) = {}
          /\ est.phase = "ready" => \E i \in Ends : i > h /\ est.log[i].what = "OK"
    /\ \A h \in Sha2Handles("full_auth") :
          /\ Cardinality(AnswersTo(h)) = 1
          /\ \A j \in AnswersTo(h) :
                /\ est.log[j].body.kind = "request_key"
                /\ ResponseLen(est.log[j].body) = 1
    /\ \A h \in Sha2Handles("public_key") :
          /\ Cardinality(AnswersTo(h)) = 1
          /\ \A j \in AnswersTo(h) : est.log[j].body.kind = "encrypted"
    /\ \A h \in Sha2Handles("full_auth"), g \in Sha2Handles("public_key") :
          (FirstPlugin = "caching_sha2_password" /\ Answered(h) = NextRead(1)
             /\ Answered(g) = NextRead(Answered(h)))
          => /\ Len(WrittenKinds) >= 3
             /\ SubSeq(WrittenKinds, 1, 3)
                  = <<"HandshakeResponse", "request_key", "encrypted">>

\* the handshake names caching_sha2_password, the server asks for full
\* authentication and then sends its key, and the client has written the
\* HandshakeResponse, the key request and the encrypted password
C32_Witness ==
    /\ Steps /= {}
    /\ FirstPlugin = "caching_sha2_password"
    /\ unwrap_or_default(est.password) = "secret"
    /\ \E h \in Sha2Handles("full_auth"), g \in Sha2Handles("public_key") :
          /\ h < g
          /\ AnswersTo(h) /= {}
          /\ AnswersTo(g) /= {}
    /\ WrittenKinds = <<"HandshakeResponse", "request_key", "encrypted">>

\* fast-auth success was read and answered by nothing, and the OK after it
\* made the connection ready
C32_FastAuthCompleted ==
    /\ est.phase = "ready"
    /\ \E h \in Sha2Handles("fast_auth_ok") : AnswersTo(h) = {}

\* the last packet read
LastRead == CHOOSE i \in StepsOf("r") : \A j \in StepsOf("r") : j <= i

\* the handle step of the Command packet read at step i failed
HandleFailed(i) == est.phase = "failed" /\ est.error.code = 2061 /\ NextRead(i) > Len(est.log)

\* however many packets the loop has read, a Switch packet naming a known
\* plugin and a Command packet the plugin handles are answered and leave
\* establishment in the loop; it ends only on an End packet or an error
LoopKeepsGoing ==
    /\ \A i \in LoopReads :
          /\ (est.log[i].what = "Switch" /\ est.log[i].plugin \in Plugins)
                => /\ Cardinality(Written(i)) = 1
                   /\ i = LastRead => est.phase = "auth"
          /\ (est.log[i].what = "Command" /\ ~HandleFailed(i))
                => /\ Cardinality(Written(i)) <= 1
                   /\ i = LastRead => est.phase = "auth"
    /\ est.phase = "ready" => est.log[LastRead].what = "OK"
    /\ est.phase = "failed" =>
          \/ est.log[LastRead].what = "ERR"
          \/ est.error.code \in {2059, 2061}

Established == est.phase \in {"ready", "failed"}

\* C33: the auth loop enforces no bound on the Switch and Command packets it
\* takes: each is accepted and answered and the loop goes on, whatever number
\* came before; establishment returns when an End packet is read or a decode
\* or plugin error occurs, so with a server that sends End after finitely many
\* packets establishment eventually ends, Ready or Failed.
C33_UnboundedLoopTerminates ==
    /\ [](Steps /= {} => LoopKeepsGoing)
    /\ (~Established ~> Established)

\* two Switch packets were read, each was answered, and the OK that came
\* after them made the connection ready
C33_Witness ==
    /\ est.phase = "ready"
    /\ \E i, j \in LoopReads :
          /\ i < j
          /\ est.log[i].what = "Switch" /\ est.log[j].what = "Switch"
          /\ Written(i) /= {} /\ Written(j) /= {}
          /\ est.log[NextRead(j)].what = "OK"

\* the last operation was a commit or rollback on a handle and returned Err
ExplicitEndFailed == last.op \in {"commit", "rollback"} /\ ~conn.result

\* C34: when commit or rollback on a handle returns an error, the call has
\* left the connection's depth unchanged and the handle open: the drop that
\* ends the call enters start_rollback once, at the depth the call started at,
\* and queues exactly one rollback statement for that depth, unflushed and
\* with one reply owed, so the depth ends one less than before the call.
C34_FailedEndRollsBackOnDrop ==
    ExplicitEndFailed =>
        LET t == conn.trace
            d == last.d0
        IN /\ d >= 1
           /\ Len(conn.calls) = 4
           /\ conn.calls[1] = [fn |-> last.op, depth |-> d]
           /\ conn.calls[3] = [fn |-> "start_rollback", depth |-> d]
           /\ conn.calls[4] = [fn |-> "rollback_ansi_transaction_sql", depth |-> d]
           /\ Entered("start_rollback") = 1
           /\ Len(Writes(t)) = 2
           /\ t[Len(t)].k = "w" /\ t[Len(t)].cmd = "Query" /\ t[Len(t)].seq = 0
           /\ RollbackText(t[Len(t)].sql, d)
           /\ conn.write_buffer = <<Packet("Query", t[Len(t)].sql, 0)>>
           /\ conn.waiting = <<"Result">>
           /\ conn.transaction_depth = d - 1

\* a commit of a savepoint failed and the drop queued the rollback to it
C34_Witness ==
    /\ ExplicitEndFailed
    /\ last.op = "commit"
    /\ last.d0 = 2
    /\ conn.transaction_depth = 1
    /\ Len(conn.write_buffer) = 1

\* the last operation was a begin whose statement failed
BeginFailed == last.op \in {"begin", "mgr_begin"} /\ ~conn.result

\* C35: when the statement sent by begin fails, the connection's depth is what
\* it was, no handle is returned (the live handles are the ones there were,
\* none of them recorded at the depth the attempt would have opened), and
\* nothing is queued for the attempt: start_rollback is not entered, the one
\* packet written is the begin statement, and nothing is buffered or owed.
C35_FailedBeginLeavesNothing ==
    BeginFailed =>
        /\ conn.transaction_depth = last.d0
        /\ Len(handles) = last.nh0
        /\ \A i \in 1..Len(handles) : handles[i].depth <= last.d0
        /\ Entered("start_rollback") = 0
        /\ Len(Writes(conn.trace)) = 1
        /\ BeginText(Writes(conn.trace)[1].sql, last.d0)
        /\ conn.write_buffer = <<>>
        /\ conn.waiting = <<>>

\* a SAVEPOINT statement failed inside an open transaction, whose handle is
\* still the only one
C35_Witness ==
    /\ BeginFailed
    /\ last.op = "begin"
    /\ last.d0 = 1
    /\ Len(handles) = 1
    /\ handles[1].open

\* the last k manager operations were drop-path rollbacks at depth >= 1, one
\* right after the other
DropsInARow(k) ==
    /\ k <= Len(hist)
    /\ \A i \in (Len(hist) - k + 1)..Len(hist) :
          hist[i].op = "start_rollback" /\ hist[i].d0 >= 1

\* C36: the statements queued by drops with no command in between are, in the
\* order they were written, the rollback texts for the depths from the one the
\* first drop found down to the one above the current depth, each framed with
\* sequence id 0, with one owed-reply marker each; k drops in a row have
\* queued at least k of them and lowered the depth by k. So n nested handles
\* dropped innermost first queue the texts for n, ..., 1 (ROLLBACK last), n
\* markers, and leave the depth at 0.
C36_NestedDropsQueueInOrder ==
    LET b == conn.write_buffer
        n == Len(b)
        d == conn.transaction_depth
    IN /\ Len(conn.waiting) = n
       /\ \A i \in 1..n :
             /\ b[i].cmd = "Query"
             /\ b[i].seq = 0
             /\ RollbackText(b[i].sql, d + n - i + 1)
       /\ \A k \in 1..HistLen :
             DropsInARow(k) =>
                 /\ n >= k
                 /\ hist[Len(hist) - k + 1].d0 = d + k
                 /\ \A i \in 1..k : hist[Len(hist) - k + i].d0 = d + k - i + 1

\* three nested handles were dropped innermost first: SAVEPOINT 2, SAVEPOINT 1
\* and the transaction are rolled back in this order and the depth is 0
C36_Witness ==
    /\ DropsInARow(3)
    /\ handles = <<>>
    /\ conn.transaction_depth = 0
    /\ Len(conn.write_buffer) = 3
    /\ conn.write_buffer[1].sql = Format("ROLLBACK TO SAVEPOINT _sqlx_savepoint_", 2)
    /\ conn.write_buffer[2].sql = Format("ROLLBACK TO SAVEPOINT _sqlx_savepoint_", 1)
    /\ conn.write_buffer[3].sql = Borrowed("ROLLBACK")
    /\ conn.waiting = <<"Result", "Result", "Result">>

\* the last operation ran on a Transaction handle
OnHandle == last.op \in {"commit", "rollback", "drop"}

\* C37: a handle whose nested handles have all ended is the innermost live
\* one, and the depth it recorded at its begin (the connection's depth then,
\* plus 1) is the connection's current depth; the handles outside it recorded
\* the depths below, one apart. So when commit, rollback or drop runs on it
\* the manager finds the handle's own depth on the connection, and the
\* statement it writes is the one for that depth: the one that ends what the
\* handle's begin opened.
C37_HandleDepthIsConnectionDepth ==
    /\ \A i \in 1..Len(handles) :
          handles[i].depth = conn.transaction_depth - (Len(handles) - i)
    /\ OnHandle =>
          /\ last.h.depth = last.d0
          /\ last.h.depth >= 1
          /\ Writes(conn.trace) /= <<>>
          /\ last.op = "commit" => CommitText(Writes(conn.trace)[1].sql, last.h.depth)
          /\ last.op \in {"rollback", "drop"} =>
                RollbackText(Writes(conn.trace)[1].sql, last.h.depth)

\* a handle begun at depth 1 is rolled back right after the handle nested in
\* it was dropped: it rolls back to its own savepoint
C37_Witness ==
    /\ last.op = "rollback"
    /\ conn.result
    /\ last.h.depth = 2
    /\ Len(hist) >= 2
    /\ hist[Len(hist) - 1].op = "start_rollback"
    /\ hist[Len(hist) - 1].d0 = 3
    /\ Writes(conn.trace)[1].sql = Format("ROLLBACK TO SAVEPOINT _sqlx_savepoint_", 1)

\* the savepoint a statement names: the identifier its literal ends with and
\* the digits after it (no identifier for BEGIN, COMMIT and ROLLBACK)
SavepointName(sql) ==
    [ident |-> IF sql.lit \in {"SAVEPOINT _sqlx_savepoint_",
                               "RELEASE SAVEPOINT _sqlx_savepoint_",
                               "ROLLBACK TO SAVEPOINT _sqlx_savepoint_"}
               THEN "_sqlx_savepoint_" ELSE "",
     num |-> sql.num]

\* C38: for every d >= 1 the savepoint that begin creates at depth d is the
\* one that commit releases and rollback targets at depth d + 1, and it is a
\* different name from the one begin creates at any other depth, so the
\* savepoints open together on a connection have pairwise distinct names.
C38_SavepointNamesPairUp ==
    /\ (fmt.fn = "begin" /\ fmt.depth >= 1) =>
          /\ SavepointName(fmt.text).ident = "_sqlx_savepoint_"
          /\ SavepointName(fmt.text)
                = SavepointName(commit_ansi_transaction_sql(fmt.depth + 1))
          /\ SavepointName(fmt.text)
                = SavepointName(rollback_ansi_transaction_sql(fmt.depth + 1))
          /\ \A d \in 1..MaxSqlDepth :
                d /= fmt.depth =>
                    SavepointName(begin_ansi_transaction_sql(d)) /= SavepointName(fmt.text)
    /\ (fmt.fn \in {"commit", "rollback"} /\ fmt.depth >= 2) =>
          SavepointName(fmt.text)
            = SavepointName(begin_ansi_transaction_sql(fmt.depth - 1))

\* commit at depth 100 releases _sqlx_savepoint_99, the savepoint of begin at
\* depth 99
C38_Witness ==
    /\ fmt.fn = "commit"
    /\ fmt.depth = 100
    /\ SavepointName(fmt.text) = [ident |-> "_sqlx_savepoint_", num |-> <<9, 9>>]
    /\ SavepointName(begin_ansi_transaction_sql(99)) = SavepointName(fmt.text)

\* the packets of the loop that reach the `id =>` arm: the first byte is
\* neither 0x00 nor 0xfe (an ERR packet is returned as an error by the read)
OtherPackets ==
    {i \in LoopReads : est.log[i].what = "Command" /\ est.log[i].byte \notin {0, 254}}

\* a plugin and a password are both configured when step i is read
PluginAndPassword(i) == CurrentPlugin(i) /= "none" /\ est.password /= <<>>

\* C39: in the loop of sqlx-core establish a packet whose first byte is
\* neither 0x00 nor 0xfe is handed to the plugin's handle exactly when a plugin
\* and a password are both configured. Otherwise that packet is the last
\* thing that happens: nothing is handled or written after it, establishment
\* has failed with the protocol error that names the packet's first byte, and
\* there is no connection.
C39_UnexpectedPacketWithoutPlugin ==
    \A i \in OtherPackets :
        IF PluginAndPassword(i)
        THEN /\ i < Len(est.log)
             /\ est.log[i + 1].k = "handle"
             /\ est.log[i + 1].plugin = CurrentPlugin(i)
             /\ est.log[i + 1].password = est.password[1]
        ELSE /\ i = Len(est.log)
             /\ est.phase = "failed"
             /\ est.error = Error(0, "", UnexpectedPacket(est.log[i].byte), "none")
             /\ est.log[i].byte \in {1, 4}

\* the caller configured a password, the server named no plugin, and its
\* packet 0x04 ended establishment
C39_Witness ==
    /\ est.phase = "failed"
    /\ est.password = <<"secret">>
    /\ OtherPackets /= {}
    /\ \A i \in OtherPackets : CurrentPlugin(i) = "none" /\ est.log[i].byte = 4
    /\ est.error.message = "unexpected packet 0x04 during authentication"

\* C40: when the prepare of a persistent call fails on a cache miss, the call
\* returns the error and no statement, and nothing was inserted: the cache has
\* the keys, the entries, the order and the size it had before the call, and
\* nothing was pushed out or finalized. The call after it, when it is for the
\* same text, is a miss again and issues a prepare again.
C40_FailedPrepareInsertsNothing ==
    /\ (CachedMiss /\ ~sq.result) =>
          /\ sq.prepared = <<Statement(sq.call.query, TRUE)>>
          /\ sq.returned = <<>>
          /\ sq.cache = sq.cache0
          /\ Len(sq.cache) = Len(sq.cache0)
          /\ ~contains_key(sq.cache, sq.call.query)
          /\ Count(sq.ops, "insert") = 0
          /\ sq.evicted = <<>> /\ sq.finalized = <<>>
          /\ sq.executed = <<>>
    /\ (CachedCall /\ sq.failed0 = sq.call.query) =>
          /\ CachedMiss
          /\ sq.prepared = <<Statement(sq.call.query, TRUE)>>

\* a text that failed to prepare with a full cache is asked for again: it is
\* prepared again, and this time inserted
C40_Witness ==
    /\ CachedCall
    /\ sq.failed0 = sq.call.query
    /\ Len(sq.cache0) = sq.capacity
    /\ sq.prepared = <<Statement(sq.call.query, TRUE)>>
    /\ sq.result
    /\ contains_key(sq.cache, sq.call.query)

====
